---- MODULE Spec2Model ----
(***************************************************************************)
(* Camera-response estimation engine of image_tools: the curve algebra of  *)
(* src/src/utils.rs, the EMOR model and gradient descent of                *)
(* src/src/emor.rs, and the "Estimate Transfer Function" job of the        *)
(* lut_maker binaries.                                                     *)
(*                                                                         *)
(* f32 values are modelled in fixed point: the integer v stands for the    *)
(* real v / One.  A division rounds to the nearest unit.                   *)
(***************************************************************************)
EXTENDS Integers, Sequences, FiniteSets, TLC

VARIABLES
    \* pure-function harness (Spec, SpecRoundTrip)
    call,       \* the function called and its arguments
    phase,      \* "call" before the function ran, "ret" after
    ret,        \* what it returned
    \* estimation job (SpecJob)
    variant, nMappings, total_rounds, pc, round_i, batch_left, est_rounds,
    canceled, rounds_since_check, tables, preview, snap,
    \* gradient descent of estimate_emor (SpecEmor)
    mappings,   \* the exposure mappings being fitted
    est_factors, \* the factor vector (`factors` of estimate_emor)
    err,        \* the error of the factor vector, in units of 1 / (One * ERR_SCALE)
    step,       \* the loop variable of the round loop
    prev_err,   \* err before the last round ran
    pcE,        \* "init", "loop" or "done"
    \* "Compute Exposure Mappings" job (SpecMappings)
    histograms,         \* the images of one bracket set that have an exposure
    map_k,              \* iterations of the (chan, i) loops that have run
    new_mappings,       \* `mappings` of the job, one list per channel
    exposure_mappings,  \* ui_data.exposure_mappings
    map_canceled,       \* the cancellation flag of the job's status
    pcM,                \* "idle", "loop", "done" or "cancelled"
    \* "Save LUT" job (SpecSaveLut)
    sensor_floor,       \* ui_data.sensor_floor, one value per channel
    sensor_ceiling,     \* ui_data.sensor_ceiling
    transfer_function_type, \* ui_data.transfer_function_type
    to_linear,          \* the direction asked for
    lut,                \* the LUT the job computed, None before
    lut_file,           \* the file at `path`, None when it was not written
    save_log,           \* the errors the job logged
    pcS,                \* "idle", "start", "compute", "write", "done" or "panicked"
    \* bracket image sets (SpecImages)
    bracket_image_sets,     \* a list of sets, each a list of image infos
    bracket_thumbnail_sets, \* ui_data.bracket_thumbnail_sets
    selected_bracket_image_index, \* <<set index, image index>>, from 0
    job_queue,          \* the jobs waiting to run, each the number of its paths
    pcA,                \* position of the running "Add Image(s)" job
    paths_left,         \* image_paths still to be drained
    img,                \* the image the job loaded
    add_canceled,       \* the cancellation flag of the job's status
    add_log,            \* the errors the job logged
    lens_cap_images,    \* the histograms of the lens cap images, as image infos
    lens_cap_thumbnails, \* ui_data.lens_cap_thumbnails
    selected_lens_cap_image_index \* ui_data.selected_lens_cap_image_index, from 0
    \* variant             which binary's job runs: "main_rs" (bin/lut_maker/main.rs)
    \*                     or "lut_maker_rs" (bin/lut_maker.rs)
    \* nMappings           mappings.len()
    \* total_rounds        ui_data.rounds
    \* pc                  position of the job's closure
    \* round_i             loop variable of the update loop
    \* batch_left          rounds do_rounds still has to run
    \* est_rounds          rounds the estimator has run in all
    \* canceled            the job status' cancellation flag
    \* rounds_since_check  optimization rounds run since the flag was last read
    \* tables              transfer_function_tables: <<>> is None, <<k>> is Some of
    \*                     the curves of the estimate after k rounds
    \* preview             transfer_function_preview: <<>> is None, <<(<<k, e>>)>>
    \*                     is Some((curves after k rounds, error after e rounds))
    \* snap                what a reader on another thread has copied out

algVars == <<call, phase, ret>>
jobVars == <<variant, nMappings, total_rounds, pc, round_i, batch_left,
             est_rounds, canceled, rounds_since_check, tables, preview, snap>>
emorVars == <<mappings, est_factors, err, step, prev_err, pcE>>
mapVars == <<histograms, map_k, new_mappings, exposure_mappings, map_canceled, pcM>>
saveVars == <<sensor_floor, sensor_ceiling, transfer_function_type, to_linear,
              lut, lut_file, save_log, pcS>>
lensVars == <<lens_cap_images, lens_cap_thumbnails, selected_lens_cap_image_index>>
imageVars == <<bracket_image_sets, bracket_thumbnail_sets, selected_bracket_image_index,
               job_queue, pcA, paths_left, img, add_canceled, add_log, lensVars>>
appVars == <<mapVars, saveVars, imageVars>>
vars == <<algVars, jobVars, emorVars, appVars>>

-----------------------------------------------------------------------------
(* Fixed point *)

\* the f32 value 1.0
One == 10000

\* a / b rounded to the nearest unit (b > 0)
FDiv(a, b) == (2 * a + b) \div (2 * b)

\* the same for a divisor of either sign (b # 0)
FDivS(a, b) == IF b > 0 THEN FDiv(a, b) ELSE FDiv(0 - a, 0 - b)

\* f32 NaN, the result of 0.0 / 0.0
NaN == 0 - (One * One)

IsNaN(v) == v = NaN

\* `a as f32 / b as f32` of two usize values, scaled to fixed point
Ratio(a, b) == IF b = 0 THEN NaN ELSE FDiv(a * One, b)

\* f32::max: a NaN operand is ignored
FMax(a, b) == IF IsNaN(a) THEN b ELSE IF IsNaN(b) THEN a ELSE IF a >= b THEN a ELSE b

FMin(a, b) == IF IsNaN(a) THEN b ELSE IF IsNaN(b) THEN a ELSE IF a <= b THEN a ELSE b

Abs(v) == IF v < 0 THEN 0 - v ELSE v

SetMax(S) == CHOOSE m \in S : \A x \in S : x <= m

\* element i (0-based, as in the source) of a sequence
At(s, i) == s[i + 1]

Last(s) == s[Len(s)]

-----------------------------------------------------------------------------
(* Model bounds *)

\* longest input table of the pure-function harness
MaxLen == 3
\* table samples are k / Grain, k in 0..Grain
Grain == 2
\* largest resolution passed to flip_slice_xy
MaxRes == 3
\* number of EMOR factors of the model (EMOR_FACTOR_COUNT is 6 in the source)
FactorCount == 2
\* number of samples of each EMOR table row
Samples == 4
\* factors range over -FactorSpan .. FactorSpan (in units of One)
FactorSpan == 2

-----------------------------------------------------------------------------
(* utils.rs: lerp_slice *)

\* lerp_slice_i1 scaling t by len instead of len - 1
lerp_slice_i1_len(slice, t) ==
    LET pos == Len(slice) * t
    IN IF pos < 0 THEN 0 ELSE pos \div One

\* i1 = ((len - 1) as f32 * t) as usize: truncation, saturating at 0
lerp_slice_i1(slice, t) ==
    LET pos == (Len(slice) - 1) * t
    IN IF pos < 0 THEN 0 ELSE pos \div One

lerp_slice_alpha(slice, t) == ((Len(slice) - 1) * t) - lerp_slice_i1(slice, t) * One

\* the indices lerp_slice reads (0-based)
lerp_slice_reads(slice, t) ==
    LET i1 == lerp_slice_i1(slice, t)
    IN IF i1 = Len(slice) - 1 THEN {Len(slice) - 1} ELSE {i1, i1 + 1}

\* a read outside 0 .. len-1 panics
lerp_slice_panics(slice, t) ==
    \E i \in lerp_slice_reads(slice, t) : i < 0 \/ i > Len(slice) - 1

lerp_slice_mid(slice, t) ==
    LET i1 == lerp_slice_i1(slice, t)
        alpha == lerp_slice_alpha(slice, t)
        v1 == At(slice, i1)
        v2 == At(slice, i1 + 1)
    IN v1 + FDiv((v2 - v1) * alpha, One)

lerp_slice(slice, t) ==
    IF lerp_slice_i1(slice, t) = Len(slice) - 1
    THEN Last(slice)
    ELSE lerp_slice_mid(slice, t)

-----------------------------------------------------------------------------
(* utils.rs: lerp_curve_at_x, lerp_curve_at_y, flip_slice_xy *)

\* A curve is a sequence of points <<x, y>>.
PX(p) == p[1]
PY(p) == p[2]

\* slice::binary_search_by over coordinate `axis` (1 is x, 2 is y) of the
\* points of a curve, with 0-based bounds: Ok(i) on a hit, Err(i) with the
\* insertion point otherwise.
RECURSIVE binary_search(_, _, _, _, _)
binary_search(curve, axis, t, left, right) ==
    IF left >= right
    THEN [ok |-> FALSE, i |-> left]
    ELSE LET mid == left + ((right - left) \div 2)
             k == At(curve, mid)[axis]
         IN IF k < t THEN binary_search(curve, axis, t, mid + 1, right)
            ELSE IF k > t THEN binary_search(curve, axis, t, left, mid)
            ELSE [ok |-> TRUE, i |-> mid]

\* segment with the implicit bounds exchanged
segment_swapped_bounds(curve, i) ==
    IF i = 0 THEN <<(<<One, One>>), At(curve, i)>>
    ELSE IF i = Len(curve) THEN <<At(curve, i - 1), (<<0, 0>>)>>
    ELSE <<At(curve, i - 1), At(curve, i)>>

\* The two points the query is interpolated between after Err(i).
segment(curve, i) ==
    IF i = 0 THEN <<(<<0, 0>>), At(curve, i)>>
    ELSE IF i = Len(curve) THEN <<At(curve, i - 1), (<<One, One>>)>>
    ELSE <<At(curve, i - 1), At(curve, i)>>

\* Result of a lookup: panic (unwrap of a None comparison, or an index out
\* of bounds), divz (the interpolation divided by 0.0), val.
Lookup(panic, divz, val) == [panic |-> panic, divz |-> divz, val |-> val]

\* lerp_curve_at_x / lerp_curve_at_y share their body with the roles of
\* the coordinates exchanged: `axis` is the searched coordinate, 3 - axis
\* the returned one.
lerp_curve(curve, t, axis) ==
    IF Len(curve) = 0
    THEN Lookup(TRUE, FALSE, NaN)            \* Err(0), then curve[0]
    ELSE IF IsNaN(t)
    THEN Lookup(TRUE, FALSE, NaN)            \* partial_cmp(..).unwrap()
    ELSE LET found == binary_search(curve, axis, t, 0, Len(curve))
         IN IF found.ok
            THEN Lookup(FALSE, FALSE, At(curve, found.i)[3 - axis])
            ELSE LET seg == segment(curve, found.i)
                     p1 == seg[1]
                     p2 == seg[2]
                     den == p2[axis] - p1[axis]
                 IN IF den = 0
                    THEN Lookup(FALSE, TRUE, NaN)
                    ELSE Lookup(FALSE, FALSE,
                                p1[3 - axis]
                                + FDivS((p2[3 - axis] - p1[3 - axis]) * (t - p1[axis]), den))

lerp_curve_at_x(curve, t) == lerp_curve(curve, t, 1)

lerp_curve_at_y(curve, t) == lerp_curve(curve, t, 2)

\* First loop of flip_slice_xy over the indices lo .. hi-1: the (x, y)
\* points with a running maximum applied to both coordinates.  The walk is
\* evaluated by halves, prev_x and prev_y being carried from the last point
\* of the left half into the right half, which gives the values of the
\* sequential loop.
RECURSIVE flip_curve_range(_, _, _, _, _)
flip_curve_range(slice, lo, hi, prev_x, prev_y) ==
    IF lo >= hi THEN <<>>
    ELSE IF hi - lo = 1
    THEN <<(<<FMax(Ratio(lo, Len(slice) - 1), prev_x), FMax(At(slice, lo), prev_y)>>)>>
    ELSE LET mid == lo + ((hi - lo) \div 2)
             left == flip_curve_range(slice, lo, mid, prev_x, prev_y)
         IN left \o flip_curve_range(slice, mid, hi, PX(Last(left)), PY(Last(left)))

\* flip_curve without the running maximum
flip_curve_raw(slice) ==
    [i \in 1..Len(slice) |-> <<Ratio(i - 1, Len(slice) - 1), slice[i]>>]

flip_curve(slice) == flip_curve_range(slice, 0, Len(slice), 0, 0)

\* y of output sample i (0-based) of flip_slice_xy
flip_y(i, resolution) == Ratio(i, resolution - 1)

\* Second loop of flip_slice_xy over the indices lo .. hi-1, by halves as
\* above.  A panic ends the call; divz records a division by 0.0.
RECURSIVE flip_range(_, _, _, _, _)
flip_range(curve, resolution, lo, hi, prev_x) ==
    IF lo >= hi THEN Lookup(FALSE, FALSE, <<>>)
    ELSE IF hi - lo = 1
    THEN LET y == flip_y(lo, resolution)
             at == lerp_curve_at_y(curve, y)
         IN IF at.panic
            THEN Lookup(TRUE, IsNaN(y), <<>>)
            ELSE Lookup(FALSE, IsNaN(y) \/ at.divz, <<FMax(at.val, prev_x)>>)
    ELSE LET mid == lo + ((hi - lo) \div 2)
             left == flip_range(curve, resolution, lo, mid, prev_x)
         IN IF left.panic THEN left
            ELSE LET right == flip_range(curve, resolution, mid, hi, Last(left.val))
                 IN Lookup(right.panic, left.divz \/ right.divz,
                           IF right.panic THEN <<>> ELSE left.val \o right.val)

flip_slice_xy(slice, resolution) ==
    LET r == flip_range(flip_curve(slice), resolution, 0, resolution, 0)
    IN Lookup(r.panic, r.divz \/ (Len(slice) > 0 /\ Len(slice) - 1 = 0), r.val)

-----------------------------------------------------------------------------
(* emor.rs: the EMOR tables and emor_factors_to_curve *)

\* x of tabulated sample i
sample_x(i) == Ratio(i, Samples - 1)

\* EMOR_TABLE[row][i], rows and samples 0-based.  The table is generated
\* at build time (emor.inc); the model uses a table of the same layout:
\* row 0 the baseline, row 1 a correction that vanishes at both ends,
\* rows 2.. basis curves, here one per interior sample, so that the
\* factors reach every combination of interior sample values.
EMOR_TABLE(row, i) ==
    IF row = 0 THEN sample_x(i)
    ELSE IF row = 1 THEN FDiv(sample_x(i) * (One - sample_x(i)), 2 * One)
    ELSE IF i = row - 1 /\ i < Samples - 1 THEN One
    ELSE 0

\* table value times factor
FMul(a, b) == FDivS(a * b, One)

RECURSIVE basis_sum(_, _, _)
basis_sum(factors, i, n) ==
    IF n = 0 THEN 0
    ELSE basis_sum(factors, i, n - 1) + FMul(EMOR_TABLE(n + 1, i), factors[n])

\* emor_at_index
emor_at_index(factors, i) ==
    EMOR_TABLE(0, i) + EMOR_TABLE(1, i) + basis_sum(factors, i, Len(factors))

MIN_DIFF_NUM == 5
MIN_DIFF_DEN == 1000

\* min_diff = 0.005 / curve.len()
min_diff(len) == FDiv(MIN_DIFF_NUM * One, MIN_DIFF_DEN * len)

\* The "ensure monotonicity" pass: sample i (0-based) after the walk, which
\* compares each sample with the already lifted one before it.
RECURSIVE lifted(_, _)
lifted(curve, i) ==
    IF i = 0 THEN At(curve, 0)
    ELSE LET prev == lifted(curve, i - 1)
         IN IF At(curve, i) - prev < min_diff(Len(curve))
            THEN prev + min_diff(Len(curve))
            ELSE At(curve, i)

\* clamp01 without the upper clamp
clamp01_floor_only(n) == FMax(n, 0)

\* n.max(0.0).min(1.0)
clamp01(n) == FMin(FMax(n, 0), One)

emor_factors_to_curve(factors) ==
    LET curve == [i \in 1..Samples |-> emor_at_index(factors, i - 1)]
        mono == [i \in 1..Samples |-> lifted(curve, i - 1)]
    IN [i \in 1..Samples |-> clamp01(mono[i])]

-----------------------------------------------------------------------------
(* Harness of the pure functions: one call per behaviour *)

SampleVals == {FDiv(k * One, Grain) : k \in 0..Grain}

TablesOfLen(n) == [1..n -> SampleVals]

Tables == UNION {TablesOfLen(n) : n \in 2..MaxLen}

FactorVals == {k * (One \div 2) : k \in (0 - 2 * FactorSpan)..(2 * FactorSpan)}

Call(fn, slice, t, resolution, factors) ==
    [fn |-> fn, slice |-> slice, t |-> t, resolution |-> resolution, factors |-> factors]

LerpSliceCalls == {Call("lerp_slice", s, t, 0, <<>>) : s \in Tables, t \in SampleVals}

FlipCalls == {Call("flip_slice_xy", s, 0, r, <<>>) : s \in Tables, r \in 0..MaxRes}

CurveCalls == {Call("emor_factors_to_curve", <<>>, 0, 0, f) : f \in [1..FactorCount -> FactorVals]}

Ret(panic, divz, val, reads) == [panic |-> panic, divz |-> divz, val |-> val, reads |-> reads]

NoRet == Ret(FALSE, FALSE, <<>>, {})

CallLerpSlice ==
    /\ phase = "call"
    /\ call.fn = "lerp_slice"
    /\ phase' = "ret"
    /\ ret' = IF lerp_slice_panics(call.slice, call.t)
              THEN Ret(TRUE, FALSE, <<>>, lerp_slice_reads(call.slice, call.t))
              ELSE Ret(FALSE, FALSE, <<lerp_slice(call.slice, call.t)>>,
                       lerp_slice_reads(call.slice, call.t))
    /\ UNCHANGED <<call, jobVars, emorVars, appVars>>

CallFlipSliceXY ==
    /\ phase = "call"
    /\ call.fn = "flip_slice_xy"
    /\ phase' = "ret"
    /\ LET r == flip_slice_xy(call.slice, call.resolution)
       IN ret' = Ret(r.panic, r.divz, r.val, {})
    /\ UNCHANGED <<call, jobVars, emorVars, appVars>>

CallFactorsToCurve ==
    /\ phase = "call"
    /\ call.fn = "emor_factors_to_curve"
    /\ phase' = "ret"
    /\ ret' = Ret(FALSE, FALSE, emor_factors_to_curve(call.factors), {})
    /\ UNCHANGED <<call, jobVars, emorVars, appVars>>

EmorIdle ==
    /\ mappings = <<>>
    /\ est_factors = <<>>
    /\ err = 0
    /\ step = 0
    /\ prev_err = 0
    /\ pcE = "idle"

MapIdle ==
    /\ histograms = <<>>
    /\ map_k = 0
    /\ new_mappings = <<>>
    /\ exposure_mappings = <<>>
    /\ map_canceled = FALSE
    /\ pcM = "idle"

SaveIdle ==
    /\ sensor_floor = <<>>
    /\ sensor_ceiling = <<>>
    /\ transfer_function_type = "none"
    /\ to_linear = FALSE
    /\ lut = <<>>
    /\ lut_file = <<>>
    /\ save_log = {}
    /\ pcS = "idle"

ImageIdle ==
    /\ bracket_image_sets = <<>>
    /\ bracket_thumbnail_sets = <<>>
    /\ selected_bracket_image_index = <<0, 0>>
    /\ job_queue = <<>>
    /\ pcA = "idle"
    /\ paths_left = 0
    /\ img = <<>>
    /\ add_canceled = FALSE
    /\ add_log = {}
    /\ lens_cap_images = <<>>
    /\ lens_cap_thumbnails = <<>>
    /\ selected_lens_cap_image_index = 0

AppIdle == MapIdle /\ SaveIdle /\ ImageIdle

JobIdle ==
    /\ variant = "none"
    /\ nMappings = 0
    /\ total_rounds = 0
    /\ pc = "idle"
    /\ round_i = 0
    /\ batch_left = 0
    /\ est_rounds = 0
    /\ canceled = FALSE
    /\ rounds_since_check = 0
    /\ tables = <<>>
    /\ preview = <<>>
    /\ snap = [tables |-> <<>>, preview |-> <<>>, full |-> FALSE]

Init ==
    /\ call \in LerpSliceCalls \cup FlipCalls \cup CurveCalls
    /\ phase = "call"
    /\ ret = NoRet
    /\ JobIdle
    /\ EmorIdle
    /\ AppIdle

Next ==
    \/ CallLerpSlice
    \/ CallFlipSliceXY
    \/ CallFactorsToCurve

Spec == Init /\ [][Next]_vars

-----------------------------------------------------------------------------
(* lut_maker: the "Estimate Transfer Function" job *)

\* the 1000 of `(1000 / mappings.len()).max(1)`
UPDATE_ROUNDS == 1000
\* mapping counts of the model are 0 and the multiples of MappingStep
MappingStep == 250
MaxMappingSteps == 3
\* largest ui_data.rounds
MaxRounds == 6

Variants == {"main_rs", "lut_maker_rs"}

MappingCounts == {0} \cup {k * MappingStep : k \in 1..MaxMappingSteps}

None == <<>>
Some(v) == <<v>>

\* rounds_per_update; usize division by zero panics
rounds_per_update == IF (UPDATE_ROUNDS \div nMappings) >= 1 THEN UPDATE_ROUNDS \div nMappings ELSE 1

\* total_rounds / rounds_per_update, the number of updates of the loop
update_count == total_rounds \div rounds_per_update

\* EmorEstimator::current_estimate: a copy of the factors and of the error
\* the estimator holds, both the result of the rounds run so far
current_estimate == <<est_rounds, est_rounds>>

Terminal == {"done", "cancelled", "panicked"}

readerVars == <<snap>>
paramVars == <<variant, nMappings, total_rounds>>

\* main.rs: the job sets ui_data.transfer_function_type, collects the
\* mappings of ui_data and returns when there are none; otherwise it creates
\* the estimator and enters the loop.
BeginMain ==
    /\ pc = "start"
    /\ variant = "main_rs"
    /\ pc' = IF nMappings = 0 THEN "done" ELSE "loop"
    /\ transfer_function_type' = "Estimated"
    /\ UNCHANGED <<sensor_floor, sensor_ceiling, to_linear, lut, lut_file, save_log, pcS>>
    /\ UNCHANGED <<paramVars, round_i, batch_left, est_rounds, canceled,
                   rounds_since_check, tables, preview, readerVars, algVars, emorVars,
                   mapVars, imageVars>>

\* lut_maker.rs: the job builds the mappings itself, reading the
\* cancellation flag once per histogram, and returns when it is set.
BuildMappingsCanceled ==
    /\ pc = "start"
    /\ variant = "lut_maker_rs"
    /\ canceled
    /\ pc' = "cancelled"
    /\ rounds_since_check' = 0
    /\ transfer_function_type' = "Estimated"
    /\ UNCHANGED <<sensor_floor, sensor_ceiling, to_linear, lut, lut_file, save_log, pcS>>
    /\ UNCHANGED <<paramVars, round_i, batch_left, est_rounds, canceled,
                   tables, preview, readerVars, algVars, emorVars, mapVars, imageVars>>

\* lut_maker.rs: with the mappings built it computes
\* 1000 / mappings.len() without looking at the length.
BeginLutMaker ==
    /\ pc = "start"
    /\ variant = "lut_maker_rs"
    /\ pc' = IF nMappings = 0 THEN "panicked" ELSE "loop"
    /\ transfer_function_type' = "Estimated"
    /\ UNCHANGED <<sensor_floor, sensor_ceiling, to_linear, lut, lut_file, save_log, pcS>>
    /\ UNCHANGED <<paramVars, round_i, batch_left, est_rounds, canceled,
                   rounds_since_check, tables, preview, readerVars, algVars, emorVars,
                   mapVars, imageVars>>

\* LoopCheck with a bug: a cancellation also clears the preview
LoopCheck_ClearOnCancel ==
    /\ pc = "loop"
    /\ IF round_i >= update_count
       THEN /\ pc' = "done"
            /\ UNCHANGED <<batch_left, rounds_since_check, preview>>
       ELSE /\ rounds_since_check' = 0
            /\ IF canceled
               THEN /\ pc' = "cancelled"
                    /\ preview' = None
                    /\ UNCHANGED batch_left
               ELSE /\ pc' = "do_rounds"
                    /\ batch_left' = rounds_per_update
                    /\ UNCHANGED preview
    /\ UNCHANGED <<paramVars, round_i, est_rounds, canceled, tables,
                   readerVars, algVars, emorVars, appVars>>

\* LoopCheck with a bug: the flag is read before the first update only
LoopCheck_FirstOnly ==
    /\ pc = "loop"
    /\ IF round_i >= update_count
       THEN /\ pc' = "done"
            /\ UNCHANGED <<batch_left, rounds_since_check>>
       ELSE IF round_i = 0
       THEN /\ rounds_since_check' = 0
            /\ IF canceled
               THEN pc' = "cancelled" /\ UNCHANGED batch_left
               ELSE pc' = "do_rounds" /\ batch_left' = rounds_per_update
       ELSE /\ pc' = "do_rounds"
            /\ batch_left' = rounds_per_update
            /\ UNCHANGED rounds_since_check
    /\ UNCHANGED <<paramVars, round_i, est_rounds, canceled, tables, preview,
                   readerVars, algVars, emorVars, appVars>>

\* Head of `for round_i in 0..(total_rounds / rounds_per_update)`: the loop
\* ends, or the job reports its progress, reads the cancellation flag and
\* returns when it is set, and otherwise calls do_rounds(rounds_per_update).
LoopCheck ==
    /\ pc = "loop"
    /\ IF round_i >= update_count
       THEN /\ pc' = "done"
            /\ UNCHANGED <<batch_left, rounds_since_check>>
       ELSE /\ rounds_since_check' = 0
            /\ IF canceled
               THEN pc' = "cancelled" /\ UNCHANGED batch_left
               ELSE pc' = "do_rounds" /\ batch_left' = rounds_per_update
    /\ UNCHANGED <<paramVars, round_i, est_rounds, canceled, tables, preview,
                   readerVars, algVars, emorVars, appVars>>

\* One optimization round inside EmorEstimator::do_rounds.
DoRound ==
    /\ pc = "do_rounds"
    /\ batch_left > 0
    /\ batch_left' = batch_left - 1
    /\ est_rounds' = est_rounds + 1
    /\ rounds_since_check' = rounds_since_check + 1
    /\ UNCHANGED <<paramVars, pc, round_i, canceled, tables, preview,
                   readerVars, algVars, emorVars, appVars>>

\* do_rounds returned: the job takes the estimate, builds the curves and
\* stores them in transfer_function_tables.
PublishTables ==
    /\ pc = "do_rounds"
    /\ batch_left = 0
    /\ tables' = Some(current_estimate[1])
    /\ pc' = "store_preview"
    /\ UNCHANGED <<paramVars, round_i, batch_left, est_rounds, canceled,
                   rounds_since_check, preview, readerVars, algVars, emorVars, appVars>>

\* PublishPreview with a bug: the error is the one of the previous update
PublishPreview_StaleError ==
    /\ pc = "store_preview"
    /\ preview' = Some(<<current_estimate[1], current_estimate[2] - rounds_per_update>>)
    /\ round_i' = round_i + 1
    /\ pc' = "loop"
    /\ UNCHANGED <<paramVars, batch_left, est_rounds, canceled,
                   rounds_since_check, tables, readerVars, algVars, emorVars, appVars>>

\* The job stores the curves and the error in ui_data's
\* transfer_function_preview, under ui_data's own lock, and loops.
PublishPreview ==
    /\ pc = "store_preview"
    /\ preview' = Some(current_estimate)
    /\ round_i' = round_i + 1
    /\ pc' = "loop"
    /\ UNCHANGED <<paramVars, batch_left, est_rounds, canceled,
                   rounds_since_check, tables, readerVars, algVars, emorVars, appVars>>

\* The user cancels the job while it runs.
Cancel ==
    /\ pc \notin Terminal
    /\ ~canceled
    /\ canceled' = TRUE
    /\ UNCHANGED <<paramVars, pc, round_i, batch_left, est_rounds,
                   rounds_since_check, tables, preview, readerVars, algVars, emorVars, appVars>>

\* A reader on another thread locks transfer_function_tables and copies
\* the tables out ...
ReadTables ==
    /\ ~snap.full
    /\ snap.tables = None
    /\ tables # None
    /\ snap' = [snap EXCEPT !.tables = tables]
    /\ UNCHANGED <<paramVars, pc, round_i, batch_left, est_rounds, canceled,
                   rounds_since_check, tables, preview, algVars, emorVars, appVars>>

\* ... and locks ui_data and copies the preview out.
ReadPreview ==
    /\ ~snap.full
    /\ preview # None
    /\ snap' = [snap EXCEPT !.preview = preview, !.full = TRUE]
    /\ UNCHANGED <<paramVars, pc, round_i, batch_left, est_rounds, canceled,
                   rounds_since_check, tables, preview, algVars, emorVars, appVars>>

AlgIdle ==
    /\ call = Call("none", <<>>, 0, 0, <<>>)
    /\ phase = "idle"
    /\ ret = NoRet

InitJob ==
    /\ variant \in Variants
    /\ nMappings \in MappingCounts
    /\ total_rounds \in 0..MaxRounds
    /\ pc = "start"
    /\ round_i = 0
    /\ batch_left = 0
    /\ est_rounds = 0
    /\ canceled = FALSE
    /\ rounds_since_check = 0
    /\ tables = None
    /\ preview = None
    /\ snap = [tables |-> None, preview |-> None, full |-> FALSE]
    /\ AlgIdle
    /\ EmorIdle
    /\ AppIdle

NextJob ==
    \/ BeginMain
    \/ BuildMappingsCanceled
    \/ BeginLutMaker
    \/ LoopCheck
    \/ DoRound
    \/ PublishTables
    \/ PublishPreview
    \/ Cancel
    \/ ReadTables
    \/ ReadPreview

SpecJob == InitJob /\ [][NextJob]_vars

-----------------------------------------------------------------------------
(* Round trip of flip_slice_xy at a LUT-sized resolution *)

\* resolution of the round trip
RoundTripRes == 256
\* knees of the input tables lie on the grid k / KneeGrid, 0 < k < KneeGrid
KneeGrid == 7

\* The strictly increasing table through (0,0), (kx,ky), (1,1), with
\* `resolution` samples.
knee_table(kx, ky, resolution) ==
    [i \in 1..resolution |->
        LET x == Ratio(i - 1, resolution - 1)
        IN IF x <= kx
           THEN FDiv(ky * x, kx)
           ELSE ky + FDiv((One - ky) * (x - kx), One - kx)]

KneeVals == {FDiv(k * One, KneeGrid) : k \in 1..(KneeGrid - 1)}

\* The straight table from lo at x = 0 to hi at x = 1, with `resolution`
\* samples.
ramp_table(lo, hi, resolution) ==
    [i \in 1..resolution |-> lo + FDiv((hi - lo) * Ratio(i - 1, resolution - 1), One)]

RampEnds == {<<lo, hi>> \in (KneeVals \cup {0, One}) \X (KneeVals \cup {0, One}) : lo < hi}

RoundTripCalls(resolution) ==
    {Call("round_trip", knee_table(kx, ky, resolution), 0, resolution, <<>>) :
        kx \in KneeVals, ky \in KneeVals}
    \cup {Call("round_trip", ramp_table(e[1], e[2], resolution), 0, resolution, <<>>) :
              e \in RampEnds}

\* first inversion
RoundTripInvert ==
    /\ phase = "call"
    /\ call.fn = "round_trip"
    /\ phase' = "inverted"
    /\ LET r == flip_slice_xy(call.slice, call.resolution)
       IN ret' = Ret(r.panic, r.divz, r.val, {})
    /\ UNCHANGED <<call, jobVars, emorVars, appVars>>

\* second inversion, of the table the first one returned
RoundTripInvertBack ==
    /\ phase = "inverted"
    /\ call.fn = "round_trip"
    /\ ~ret.panic
    /\ phase' = "ret"
    /\ LET r == flip_slice_xy(ret.val, call.resolution)
       IN ret' = Ret(r.panic, r.divz, r.val, {})
    /\ UNCHANGED <<call, jobVars, emorVars, appVars>>

InitRoundTrip ==
    /\ call \in RoundTripCalls(RoundTripRes)
    /\ phase = "call"
    /\ ret = NoRet
    /\ JobIdle
    /\ EmorIdle
    /\ AppIdle

NextRoundTrip ==
    \/ RoundTripInvert
    \/ RoundTripInvertBack

SpecRoundTrip == InitRoundTrip /\ [][NextRoundTrip]_vars

-----------------------------------------------------------------------------
(* emor.rs: eval_emor and the error function of estimate_emor *)

\* An error is held in units of 1 / (One * ERR_SCALE), a weight in units of
\* 1 / WScale.
ERR_SCALE == 10000
WScale == 100

\* POINTS of calc_error
POINTS == 64
\* MIN_SLOPE = 1.0 / MIN_SLOPE_DEN
MIN_SLOPE_DEN == 256
\* the 1024.0 of non_mono_weight
NON_MONO_SCALE == 1024
\* sample_count_weight = curve.len() / SAMPLE_COUNT_DEN
SAMPLE_COUNT_DEN == 256
\* DELTA = 1.0 / DELTA_DEN
DELTA_DEN == 1000

\* <<q, r>> with a * b = q * c + r and 0 <= r < c, for a, b >= 0 and c > 0,
\* computed without forming a * b
RECURSIVE mul_div_qr(_, _, _)
mul_div_qr(a, b, c) ==
    IF b = 0 THEN <<0, 0>>
    ELSE LET h == mul_div_qr(a, b \div 2, c)
             r == 2 * h[2] + (b % 2) * a
         IN <<2 * h[1] + (r \div c), r % c>>

\* a * b / c
MulDiv(a, b, c) == mul_div_qr(a, b, c)[1]

\* the largest r in lo .. hi with r * r <= s
RECURSIVE sqrt_range(_, _, _)
sqrt_range(s, lo, hi) ==
    IF lo >= hi THEN lo
    ELSE LET mid == (lo + hi + 1) \div 2
         IN IF mid * mid <= s THEN sqrt_range(s, mid, hi) ELSE sqrt_range(s, lo, mid - 1)

\* f32::sqrt of an integer below 2^31
sqrt(s) == sqrt_range(s, 0, 46340)

\* the first n samples of EMOR_TABLE[row]
RECURSIVE emor_row_prefix(_, _)
emor_row_prefix(row, n) ==
    IF n = 0 THEN <<>> ELSE Append(emor_row_prefix(row, n - 1), EMOR_TABLE(row, n - 1))

\* EMOR_TABLE[row] as a slice
EMOR_ROW(row) == emor_row_prefix(row, Samples)

\* the sum of lerp_slice(&EMOR_TABLE[i + 2], x) * factors[i] over i < n
RECURSIVE basis_at(_, _, _)
basis_at(factors, x, n) ==
    IF n = 0 THEN 0
    ELSE basis_at(factors, x, n - 1) + FMul(lerp_slice(EMOR_ROW(n + 1), x), factors[n])

\* eval_emor without the baseline term
eval_emor_no_baseline(factors, x) ==
    lerp_slice(EMOR_ROW(1), x) + basis_at(factors, x, Len(factors))

eval_emor(factors, x) ==
    x + lerp_slice(EMOR_ROW(1), x) + basis_at(factors, x, Len(factors))

\* An ExposureMapping: its curve and its exposure_ratio.
ExposureMapping(curve, exposure_ratio) == [curve |-> curve, exposure_ratio |-> exposure_ratio]

\* ExposureMapping::eval_at_x: the y the curve gives for x, None when x
\* lies outside the xs the curve covers
eval_at_x(mapping, x) ==
    IF x < PX(mapping.curve[1]) \/ x > PX(Last(mapping.curve))
    THEN None
    ELSE Some(lerp_curve_at_x(mapping.curve, x).val)

\* ExposureMapping::eval_at_y: the x the curve gives for y, None when y
\* lies outside the ys the curve covers
eval_at_y(mapping, y) ==
    IF y < PY(mapping.curve[1]) \/ y > PY(Last(mapping.curve))
    THEN None
    ELSE Some(lerp_curve_at_y(mapping.curve, y).val)

MIN_DELTA == FDiv(One, MIN_SLOPE_DEN * Samples)

\* non_mono_weight without the penalty
non_mono_weight_zero(n) == 0

\* non_mono_weight of calc_error for n mappings
non_mono_weight(n) == FDiv(NON_MONO_SCALE * n * POINTS * WScale, Samples)

\* non_mono without the max(0.0)
non_mono_no_floor(emor_factors, i) ==
    LET last_y == IF i = 0 THEN 0 - MIN_DELTA ELSE emor_at_index(emor_factors, i - 1)
    IN last_y - emor_at_index(emor_factors, i) + MIN_DELTA

\* non_mono of sample i: how far the step from sample i - 1 falls short of
\* MIN_DELTA (last_y starts at -MIN_DELTA)
non_mono(emor_factors, i) ==
    LET last_y == IF i = 0 THEN 0 - MIN_DELTA ELSE emor_at_index(emor_factors, i - 1)
    IN FMax(last_y - emor_at_index(emor_factors, i) + MIN_DELTA, 0)

\* the sum of non_mono over the first n samples
RECURSIVE non_mono_sum(_, _)
non_mono_sum(emor_factors, n) ==
    IF n = 0 THEN 0
    ELSE non_mono_sum(emor_factors, n - 1) + non_mono(emor_factors, n - 1)

\* mapping_weight without the max(0.0) on the extent
mapping_weight_no_floor(mapping) ==
    LET y_extent == Abs(PY(mapping.curve[1]) - PY(Last(mapping.curve)))
        adjusted_extent == FDivS((y_extent - (One \div 2)) * One, One - (One \div 2))
        extent_weight == FMul(adjusted_extent, adjusted_extent)
    IN FDiv(Len(mapping.curve) * extent_weight * WScale, SAMPLE_COUNT_DEN * One)

\* weight of a mapping
mapping_weight(mapping) ==
    LET y_extent == Abs(PY(mapping.curve[1]) - PY(Last(mapping.curve)))
        adjusted_extent == FDiv(FMax(y_extent - (One \div 2), 0) * One, One - (One \div 2))
        extent_weight == FMul(adjusted_extent, adjusted_extent)
    IN FDiv(Len(mapping.curve) * extent_weight * WScale, SAMPLE_COUNT_DEN * One)

\* The element of a singleton set.  An intermediate result is bound to a
\* name by v \in {e}, which evaluates e once.
The(S) == CHOOSE r \in S : TRUE

\* A pair <<sum, count>> holds what is added to err_sum and how many weights
\* are added to err_weight_sum.
pair_add(a, b) == The({<<p[1] + q[1], p[2] + q[2]>> : p \in {a}, q \in {b}})

pair_scale(weight, a) == The({<<weight * p[1], weight * p[2]>> : p \in {a}})

\* x_err or y_err: nothing is added for None
abs_error(v, mapped) ==
    The({IF m = None THEN <<0, 0>> ELSE <<Abs(v - m[1]), 1>> : m \in {mapped}})

y_linear(i) == Ratio(i, POINTS - 1)

x_linear(mapping, i) == FDiv(y_linear(i), mapping.exposure_ratio)

\* What sample point i of a mapping adds, before the product with the
\* mapping's weight.
point_error(mapping, emor_factors, i) ==
    The({pair_add(abs_error(x, eval_at_y(mapping, y)), abs_error(y, eval_at_x(mapping, x))) :
            x \in {eval_emor(emor_factors, x_linear(mapping, i))},
            y \in {eval_emor(emor_factors, y_linear(i))}})

\* the sum of point_error over the sample points lo .. hi-1, by halves
RECURSIVE points_error(_, _, _, _)
points_error(mapping, emor_factors, lo, hi) ==
    IF lo >= hi THEN <<0, 0>>
    ELSE IF hi - lo = 1 THEN point_error(mapping, emor_factors, lo)
    ELSE pair_add(points_error(mapping, emor_factors, lo, lo + ((hi - lo) \div 2)),
                  points_error(mapping, emor_factors, lo + ((hi - lo) \div 2), hi))

\* What the first n mappings add.
RECURSIVE mappings_error(_, _, _)
mappings_error(maps, emor_factors, n) ==
    IF n = 0 THEN <<0, 0>>
    ELSE pair_add(mappings_error(maps, emor_factors, n - 1),
                  pair_scale(mapping_weight(maps[n]),
                             points_error(maps[n], emor_factors, 0, POINTS)))

\* err_sum / err_weight_sum, NaN (0.0 / 0.0) when no weight was added.  The
\* part of the penalty, shortfall * nmw, and the one of the mappings are
\* divided apart.
error_ratio(shortfall, nmw, fit_sum, err_weight_sum) ==
    IF err_weight_sum = 0 THEN NaN
    ELSE MulDiv(shortfall * ERR_SCALE, nmw, err_weight_sum)
         + MulDiv(fit_sum, ERR_SCALE, err_weight_sum)

calc_error(maps, emor_factors) ==
    The({error_ratio(shortfall, nmw, fit[1], Samples * nmw + fit[2]) :
            shortfall \in {non_mono_sum(emor_factors, Samples)},
            nmw \in {non_mono_weight(Len(maps))},
            fit \in {mappings_error(maps, emor_factors, Len(maps))}})

-----------------------------------------------------------------------------
(* emor.rs: the gradient descent of estimate_emor *)

\* rounds of the descent (ROUNDS is 300 in the source)
Rounds == 6
\* samples of a mapping's curve
MapLen == 256
\* exposure ratios of the mappings are 2^k, 1 <= k <= MaxStops
MaxStops == 2
\* most mappings fitted at once
MaxMappings == 2

DELTA == FDiv(One, DELTA_DEN)
START_STEP_SIZE == One

\* step_size without the decay
step_size_flat(s) == START_STEP_SIZE

step_size(s) == START_STEP_SIZE + FDivS(s * (DELTA - START_STEP_SIZE), Rounds)

\* error_diffs[0 .. n-1]: the change of the error when factor i alone
\* grows by DELTA
RECURSIVE error_diffs_prefix(_, _, _, _)
error_diffs_prefix(maps, factors, e, n) ==
    IF n = 0 THEN <<>>
    ELSE Append(error_diffs_prefix(maps, factors, e, n - 1),
                IF IsNaN(e) THEN NaN
                ELSE calc_error(maps, [factors EXCEPT ![n] = factors[n] + DELTA]) - e)

error_diffs(maps, factors, e) == error_diffs_prefix(maps, factors, e, Len(factors))

\* diff_length_positive reading the first difference only
diff_length_positive_first(diffs, e) ==
    ~IsNaN(e) /\ diffs[1] # 0

\* diff_length > 0.0: false for a zero vector and for NaN
diff_length_positive(diffs, e) ==
    ~IsNaN(e) /\ \E i \in 1..Len(diffs) : diffs[i] # 0

\* error_diffs[i] divided by the largest magnitude among the diffs, which
\* keeps the squares in range
scaled_diff(diffs, i) ==
    LET largest == SetMax({Abs(diffs[k]) : k \in 1..Len(diffs)})
    IN IF diffs[i] < 0 THEN 0 - MulDiv(0 - diffs[i], One, largest)
       ELSE MulDiv(diffs[i], One, largest)

\* the sum of the squares of the first n scaled diffs
RECURSIVE square_sum(_, _)
square_sum(diffs, n) ==
    IF n = 0 THEN 0
    ELSE square_sum(diffs, n - 1) + scaled_diff(diffs, n) * scaled_diff(diffs, n)

\* error_diffs[i] * diff_norm, component i of the unit vector along the diffs
diff_direction(diffs, i) ==
    FDivS(scaled_diff(diffs, i) * One, sqrt(square_sum(diffs, Len(diffs))))

\* the first n factors after the step against the gradient
RECURSIVE stepped_prefix(_, _, _, _)
stepped_prefix(factors, diffs, s, n) ==
    IF n = 0 THEN <<>>
    ELSE Append(stepped_prefix(factors, diffs, s, n - 1),
                factors[n] - FMul(diff_direction(diffs, n), step_size(s)))

stepped(factors, diffs, s) == stepped_prefix(factors, diffs, s, Len(factors))

\* The curve of truth sampled as an exposure pair of the given ratio: x is
\* the encoded value of the shorter exposure, y the one of the longer.
mapping_of(truth, ratio) ==
    ExposureMapping(
        [k \in 1..MapLen |->
            <<eval_emor(truth, FDiv(Ratio(k - 1, MapLen - 1), ratio)),
              eval_emor(truth, Ratio(k - 1, MapLen - 1))>>],
        ratio)

\* factor vectors the mappings are sampled from: zero, and +-0.1 alternating
Truths ==
    {[i \in 1..FactorCount |-> 0],
     [i \in 1..FactorCount |-> IF i % 2 = 1 THEN One \div 10 ELSE 0 - (One \div 10)]}

\* divisor of the range of a narrow mapping
NARROW == 4

\* A pair of exposures that covers the lowest quarter of the range only:
\* the extent of its y values is below MIN_EXTENT, its weight is zero.
narrow_mapping(truth, ratio) ==
    ExposureMapping(
        [k \in 1..MapLen |->
            <<eval_emor(truth, FDiv(Ratio(k - 1, MapLen - 1), NARROW * ratio)),
              eval_emor(truth, FDiv(Ratio(k - 1, MapLen - 1), NARROW))>>],
        ratio)

MappingLibrary(truths) ==
    {mapping_of(t, 2 ^ k) : t \in truths, k \in 1..MaxStops}
    \cup {narrow_mapping([i \in 1..FactorCount |-> 0], 2)}

MappingSets(library) == UNION {[1..n -> library] : n \in 0..MaxMappings}

\* let mut factors = [0.0; EMOR_FACTOR_COUNT]; let mut err = calc_error(..)
EmorStart ==
    /\ pcE = "start"
    /\ est_factors' = [i \in 1..FactorCount |-> 0]
    /\ \E e \in {calc_error(mappings, [i \in 1..FactorCount |-> 0])} :
          err' = e /\ prev_err' = e
    /\ step' = 0
    /\ pcE' = "loop"
    /\ UNCHANGED <<mappings, algVars, jobVars, appVars>>

\* One pass of `for step in 0..ROUNDS`: with a gradient the step is taken
\* and err becomes the error of the new factors, whatever it is; without
\* one the loop breaks.
EmorRound ==
    /\ pcE = "loop"
    /\ step < Rounds
    /\ \E diffs \in {error_diffs(mappings, est_factors, err)} :
          IF diff_length_positive(diffs, err)
          THEN \E factors \in {stepped(est_factors, diffs, step)} :
                  /\ est_factors' = factors
                  /\ err' = calc_error(mappings, factors)
                  /\ prev_err' = err
                  /\ step' = step + 1
                  /\ UNCHANGED pcE
          ELSE /\ pcE' = "done"
               /\ UNCHANGED <<est_factors, err, prev_err, step>>
    /\ UNCHANGED <<mappings, algVars, jobVars, appVars>>

\* The loop ran all its rounds: (factors, err) is returned.
EmorReturn ==
    /\ pcE = "loop"
    /\ step = Rounds
    /\ pcE' = "done"
    /\ UNCHANGED <<mappings, est_factors, err, prev_err, step, algVars, jobVars, appVars>>

InitEmor ==
    /\ mappings \in MappingSets(MappingLibrary(Truths))
    /\ est_factors = <<>>
    /\ err = 0
    /\ step = 0
    /\ prev_err = 0
    /\ pcE = "start"
    /\ AlgIdle
    /\ JobIdle
    /\ AppIdle

NextEmor ==
    \/ EmorStart
    \/ EmorRound
    \/ EmorReturn

SpecEmor == InitEmor /\ [][NextEmor]_vars

\* The descent runs on its own thread and is never suspended for good: weak
\* fairness of NextEmor.  NextEmor is enabled exactly while pcE is not
\* "done" and every step that changes the state is one of its steps, so
\* WF_vars(NextEmor) is written without ENABLED.
SpecEmorLive == SpecEmor /\ ([]<>(pcE = "done") \/ []<><<TRUE>>_vars)

-----------------------------------------------------------------------------
(* The "Compute Exposure Mappings" job (bin/lut_maker/main.rs)             *)
(*                                                                         *)
(* A histogram is its list of bucket counts.  An image of a bracket set    *)
(* is a record of its exposure and of its three channel histograms.        *)

CHANNELS == 3
MaxImages == 3
MaxExposureStops == 2
PixelCount == 8

\* no pixel at all, every pixel in bucket 0, pixels in both buckets
HistogramKinds == {<<0, 0>>, <<PixelCount, 0>>, <<PixelCount \div 2, PixelCount \div 2>>}

\* exposure times from 1 to 2^MaxExposureStops: ratios below, at and above 2
Exposures == 1..(2 ^ MaxExposureStops)

Images == [exposure : Exposures, histograms : [1..CHANNELS -> HistogramKinds]]

\* the images of a set are kept in the order of their exposure
BracketSets(images) ==
    UNION {{s \in [1..n -> images] :
               \A i \in 1..(n - 1) : s[i].exposure < s[i + 1].exposure} :
           n \in 0..MaxImages}

hist_population(h) == h[1] + h[2]

\* a histogram with no population, or with all of it in bucket 0
hist_degenerate(h) == h[2] = 0

TARGET_RATIO == 2 * One

\* hist_ratio with the two exposures exchanged
hist_ratio_inverted(hists, i, j) == FDiv(hists[i].exposure * One, hists[j].exposure)

hist_ratio(hists, i, j) == FDiv(hists[j].exposure * One, hists[i].exposure)

\* The loop over j: the histogram whose exposure is closest to twice that of
\* histogram i.  best_ratio is None for minus infinity.
RECURSIVE other_hist(_, _, _, _, _)
other_hist(hists, i, j, other_hist_i, best_ratio) ==
    IF j > Len(hists)
    THEN other_hist_i
    ELSE The({IF /\ best_ratio # None
                 /\ Abs(ratio - TARGET_RATIO) > Abs(best_ratio[1] - TARGET_RATIO)
              THEN other_hist_i
              ELSE other_hist(hists, i, j + 1, j, Some(ratio)) :
                  ratio \in {hist_ratio(hists, i, j)}})

\* ExposureMapping::from_histograms returns one mapping for the two
\* histograms it is given.
from_histograms(h1, h2, exposure_1, exposure_2) ==
    [populations |-> <<hist_population(h1), hist_population(h2)>>,
     degenerate |-> hist_degenerate(h1) \/ hist_degenerate(h2),
     exposure_ratio |-> FDiv(exposure_2 * One, exposure_1)]

\* the channel and the histogram of iteration k of the two nested loops
loop_chan(k) == ((k - 1) \div Len(histograms)) + 1
loop_i(k) == ((k - 1) % Len(histograms)) + 1
loop_count == CHANNELS * Len(histograms)

NoMappings == [chan \in 1..CHANNELS |-> <<>>]

\* one iteration that finds the flag clear: the mapping of histogram i and
\* of the histogram found for it is pushed whenever there is a later one
ComputeMappingsStep ==
    /\ pcM = "loop"
    /\ map_k < loop_count
    /\ ~map_canceled
    /\ map_k' = map_k + 1
    /\ \E chan \in {loop_chan(map_k + 1)}, i \in {loop_i(map_k + 1)} :
          \E other_hist_i \in {other_hist(histograms, i, i + 1, i, None)} :
             new_mappings' =
                 IF other_hist_i > i
                 THEN [new_mappings EXCEPT ![chan] =
                          Append(@, from_histograms(histograms[i].histograms[chan],
                                                    histograms[other_hist_i].histograms[chan],
                                                    histograms[i].exposure,
                                                    histograms[other_hist_i].exposure))]
                 ELSE new_mappings
    /\ UNCHANGED <<histograms, exposure_mappings, map_canceled, pcM>>
    /\ UNCHANGED <<algVars, jobVars, emorVars, saveVars, imageVars>>

\* an iteration that finds the flag set: the job returns
ComputeMappingsCanceled ==
    /\ pcM = "loop"
    /\ map_k < loop_count
    /\ map_canceled
    /\ pcM' = "cancelled"
    /\ UNCHANGED <<histograms, map_k, new_mappings, exposure_mappings, map_canceled>>
    /\ UNCHANGED <<algVars, jobVars, emorVars, saveVars, imageVars>>

\* after the loops: ui_data.exposure_mappings = mappings
ComputeMappingsStore ==
    /\ pcM = "loop"
    /\ map_k = loop_count
    /\ exposure_mappings' = new_mappings
    /\ pcM' = "done"
    /\ UNCHANGED <<histograms, map_k, new_mappings, map_canceled>>
    /\ UNCHANGED <<algVars, jobVars, emorVars, saveVars, imageVars>>

\* the user cancels the job
CancelMappings ==
    /\ pcM = "loop"
    /\ ~map_canceled
    /\ map_canceled' = TRUE
    /\ UNCHANGED <<histograms, map_k, new_mappings, exposure_mappings, pcM>>
    /\ UNCHANGED <<algVars, jobVars, emorVars, saveVars, imageVars>>

InitMappings ==
    /\ histograms \in BracketSets(Images)
    /\ map_k = 0
    /\ new_mappings = NoMappings
    /\ exposure_mappings = NoMappings
    /\ map_canceled = FALSE
    /\ pcM = "loop"
    /\ AlgIdle
    /\ JobIdle
    /\ EmorIdle
    /\ SaveIdle
    /\ ImageIdle

NextMappings ==
    \/ ComputeMappingsStep
    \/ ComputeMappingsCanceled
    \/ ComputeMappingsStore
    \/ CancelMappings

SpecMappings == InitMappings /\ [][NextMappings]_vars

-----------------------------------------------------------------------------
(* The "Save LUT" job (AppMain::save_lut)                                  *)

\* sensor floors and ceilings lie on the grid k / LevelGrid
LevelGrid == 2

Levels == {FDiv(k * One, LevelGrid) : k \in 0..LevelGrid}

ChannelLevels == [1..CHANNELS -> Levels]

TransferFunctions == {"Estimated", "Linear"}

\* floor.iter().zip(ceiling.iter()).any(|(a, b)| *a >= *b)
floor_reaches_ceiling_all(floor, ceiling) ==
    \A i \in 1..CHANNELS : floor[i] >= ceiling[i]

floor_reaches_ceiling(floor, ceiling) ==
    \E i \in 1..CHANNELS : floor[i] >= ceiling[i]

\* The job reads ui_data and checks the floors against the ceilings.
SaveLutCheck ==
    /\ pcS = "start"
    /\ IF floor_reaches_ceiling(sensor_floor, sensor_ceiling)
       THEN /\ save_log' = save_log \cup {"floor_not_below_ceiling"}
            /\ pcS' = "done"
       ELSE /\ pcS' = "compute"
            /\ UNCHANGED save_log
    /\ UNCHANGED <<sensor_floor, sensor_ceiling, transfer_function_type, to_linear,
                   lut, lut_file>>
    /\ UNCHANGED <<algVars, jobVars, emorVars, mapVars, imageVars>>

\* The LUT is computed: from the estimated tables, which are unwrapped, or
\* from the fixed function.
SaveLutCompute ==
    /\ pcS = "compute"
    /\ IF transfer_function_type = "Estimated" /\ tables = None
       THEN /\ pcS' = "panicked"
            /\ UNCHANGED lut
       ELSE /\ lut' = Some([function |-> transfer_function_type,
                            to_linear |-> to_linear,
                            floor |-> sensor_floor,
                            ceiling |-> sensor_ceiling])
            /\ pcS' = "write"
    /\ UNCHANGED <<sensor_floor, sensor_ceiling, transfer_function_type, to_linear,
                   lut_file, save_log>>
    /\ UNCHANGED <<algVars, jobVars, emorVars, mapVars, imageVars>>

\* The file is written, or the write fails and the failure is logged.
SaveLutWrite ==
    /\ pcS = "write"
    /\ \E written \in BOOLEAN :
          IF written
          THEN /\ lut_file' = lut
               /\ UNCHANGED save_log
          ELSE /\ save_log' = save_log \cup {"could_not_write"}
               /\ UNCHANGED lut_file
    /\ pcS' = "done"
    /\ UNCHANGED <<sensor_floor, sensor_ceiling, transfer_function_type, to_linear, lut>>
    /\ UNCHANGED <<algVars, jobVars, emorVars, mapVars, imageVars>>

InitSaveLut ==
    /\ sensor_floor \in ChannelLevels
    /\ sensor_ceiling \in ChannelLevels
    /\ transfer_function_type \in TransferFunctions
    /\ to_linear \in BOOLEAN
    /\ lut = None
    /\ lut_file = None
    /\ save_log = {}
    /\ pcS = "start"
    /\ AlgIdle
    /\ EmorIdle
    /\ MapIdle
    /\ ImageIdle
    \* no estimation job runs; its tables are None or those of an estimate
    /\ variant = "none"
    /\ nMappings = 0
    /\ total_rounds = 0
    /\ pc = "idle"
    /\ round_i = 0
    /\ batch_left = 0
    /\ est_rounds = 0
    /\ canceled = FALSE
    /\ rounds_since_check = 0
    /\ tables \in {None, Some(UPDATE_ROUNDS)}
    /\ preview = None
    /\ snap = [tables |-> None, preview |-> None, full |-> FALSE]

NextSaveLut ==
    \/ SaveLutCheck
    \/ SaveLutCompute
    \/ SaveLutWrite

SpecSaveLut == InitSaveLut /\ [][NextSaveLut]_vars

-----------------------------------------------------------------------------
(* Bracket image sets: the "Add Image(s)" job and the two removal handlers *)
(* (AppMain::add_bracket_image_files, remove_bracket_image,                *)
(* remove_bracket_image_set)                                               *)
(*                                                                         *)
(* An image is the record of its ImageInfo: width, height and exposure.    *)
(* Indices of the source count from 0; a list index i of the source is     *)
(* position i + 1 here.  The job queue runs one job at a time, in order.   *)

\* the sets hold at most MaxImageLoad images, an empty set counting as one
MaxImageLoad == 3
MaxQueued == 2

Resolutions == {<<1, 1>>, <<2, 1>>, <<1, 2>>}
InfoExposures == {None, Some(1)}

ImageInfos == {[width |-> r[1], height |-> r[2], exposure |-> e] :
                  r \in Resolutions, e \in InfoExposures}

\* Option<f32>::partial_cmp: None is less than every Some
exposure_key(info) == IF info.exposure = None THEN 0 ELSE info.exposure[1]

exposure_sorted(set) ==
    \A i \in 1..(Len(set) - 1) : exposure_key(set[i]) <= exposure_key(set[i + 1])

\* set.push(x); set.sort_unstable_by(exposure): every order of the elements
\* that is sorted, as the sort is not stable
push_sorted(set, x) ==
    {s \in {[i \in 1..(Len(set) + 1) |-> Append(set, x)[p[i]]] :
                p \in Permutations(1..(Len(set) + 1))} : exposure_sorted(s)}

resolution_differs_width_only(image, first) ==
    image.width # first.width

\* img.image.width() != needed_width || img.image.height() != needed_height
resolution_differs(image, first) ==
    image.width # first.width \/ image.height # first.height

RECURSIVE image_load(_, _)
image_load(sets, n) ==
    IF n = 0 THEN 0
    ELSE image_load(sets, n - 1) + (IF Len(sets[n]) = 0 THEN 1 ELSE Len(sets[n]))

RECURSIVE queued_load(_, _)
queued_load(queue, n) ==
    IF n = 0 THEN 0
    ELSE queued_load(queue, n - 1) + (IF queue[n].kind # "mappings" THEN queue[n].paths ELSE 0)

\* the images the lists hold and those still to be loaded
images_held ==
    image_load(bracket_image_sets, Len(bracket_image_sets)) + Len(lens_cap_thumbnails)
        + paths_left + queued_load(job_queue, Len(job_queue))

job_count == Len(job_queue) + (IF pcA = "idle" THEN 0 ELSE 1)

AddJob(n) == [kind |-> "add", paths |-> n]
MappingsJob == [kind |-> "mappings", paths |-> 0]

remove_at(list, index) ==
    [i \in 1..(Len(list) - 1) |-> IF i <= index THEN list[i] ELSE list[i + 1]]

saturating_sub(a, b) == IF a >= b THEN a - b ELSE 0

\* UI: files are dropped or picked; the job and the update of the exposure
\* mappings are queued
AddBracketImageFiles ==
    /\ Len(job_queue) + 2 <= MaxQueued
    /\ \E n \in 1..MaxImageLoad :
          /\ images_held + n <= MaxImageLoad
          /\ job_queue' = job_queue \o <<AddJob(n), MappingsJob>>
    /\ UNCHANGED <<bracket_image_sets, bracket_thumbnail_sets,
                   selected_bracket_image_index, pcA, paths_left, img,
                   add_canceled, add_log>>
    /\ UNCHANGED <<algVars, jobVars, emorVars, mapVars, saveVars, lensVars>>

\* job: bracket_image_sets.lock_mut().push(Vec::new())
AddJobNewImageSet ==
    /\ pcA = "idle"
    /\ job_queue # <<>>
    /\ Head(job_queue).kind = "add"
    /\ job_queue' = Tail(job_queue)
    /\ paths_left' = Head(job_queue).paths
    /\ bracket_image_sets' = Append(bracket_image_sets, <<>>)
    /\ pcA' = "new_thumbnail_set"
    /\ UNCHANGED <<bracket_thumbnail_sets, selected_bracket_image_index, img,
                   add_canceled, add_log>>
    /\ UNCHANGED <<algVars, jobVars, emorVars, mapVars, saveVars, lensVars>>

\* job: ui_data.lock_mut().bracket_thumbnail_sets.push(Vec::new())
AddJobNewThumbnailSet ==
    /\ pcA = "new_thumbnail_set"
    /\ bracket_thumbnail_sets' = Append(bracket_thumbnail_sets, <<>>)
    /\ pcA' = "loop"
    /\ UNCHANGED <<bracket_image_sets, selected_bracket_image_index, job_queue,
                   paths_left, img, add_canceled, add_log>>
    /\ UNCHANGED <<algVars, jobVars, emorVars, mapVars, saveVars, lensVars>>

\* job: the next path is drained and loaded; a file that cannot be loaded
\* ends the job
AddJobLoad ==
    /\ pcA = "loop"
    /\ paths_left > 0
    /\ ~add_canceled
    /\ \/ /\ \E e \in {"no_access", "unknown_format"} : add_log' = add_log \cup {e}
          /\ paths_left' = 0
          /\ add_canceled' = FALSE
          /\ pcA' = "idle"
          /\ UNCHANGED img
       \/ /\ \E image \in ImageInfos : img' = Some(image)
          /\ paths_left' = paths_left - 1
          /\ pcA' = "check"
          /\ UNCHANGED <<add_log, add_canceled>>
    /\ UNCHANGED <<bracket_image_sets, bracket_thumbnail_sets,
                   selected_bracket_image_index, job_queue>>
    /\ UNCHANGED <<algVars, jobVars, emorVars, mapVars, saveVars, lensVars>>

\* job: the resolution of the image is compared with that of the first image
\* of the last set
AddJobCheck ==
    /\ pcA = "check"
    /\ IF /\ Last(bracket_image_sets) # <<>>
          /\ resolution_differs(img[1], Last(bracket_image_sets)[1])
       THEN /\ add_log' = add_log \cup {"different_resolution"}
            /\ img' = None
            /\ pcA' = "loop"
       ELSE /\ pcA' = "push_thumbnail"
            /\ UNCHANGED <<add_log, img>>
    /\ UNCHANGED <<bracket_image_sets, bracket_thumbnail_sets,
                   selected_bracket_image_index, job_queue, paths_left, add_canceled>>
    /\ UNCHANGED <<algVars, jobVars, emorVars, mapVars, saveVars, lensVars>>

\* job: the thumbnail is pushed on the last thumbnail set, which is sorted
AddJobPushThumbnail ==
    /\ pcA = "push_thumbnail"
    /\ \E set \in push_sorted(Last(bracket_thumbnail_sets), img[1]) :
          bracket_thumbnail_sets' =
              [bracket_thumbnail_sets EXCEPT ![Len(bracket_thumbnail_sets)] = set]
    /\ pcA' = "push_image"
    /\ UNCHANGED <<bracket_image_sets, selected_bracket_image_index, job_queue,
                   paths_left, img, add_canceled, add_log>>
    /\ UNCHANGED <<algVars, jobVars, emorVars, mapVars, saveVars, lensVars>>

\* job: the image is pushed on the last image set, which is sorted
AddJobPushImage ==
    /\ pcA = "push_image"
    /\ \E set \in push_sorted(Last(bracket_image_sets), img[1]) :
          bracket_image_sets' =
              [bracket_image_sets EXCEPT ![Len(bracket_image_sets)] = set]
    /\ img' = None
    /\ pcA' = "loop"
    /\ UNCHANGED <<bracket_thumbnail_sets, selected_bracket_image_index, job_queue,
                   paths_left, add_canceled, add_log>>
    /\ UNCHANGED <<algVars, jobVars, emorVars, mapVars, saveVars, lensVars>>

\* job: the paths are drained, or the flag is set: the job ends
AddJobEnd ==
    /\ pcA = "loop"
    /\ paths_left = 0 \/ add_canceled
    /\ paths_left' = 0
    /\ add_canceled' = FALSE
    /\ pcA' = "idle"
    /\ UNCHANGED <<bracket_image_sets, bracket_thumbnail_sets,
                   selected_bracket_image_index, job_queue, img, add_log>>
    /\ UNCHANGED <<algVars, jobVars, emorVars, mapVars, saveVars, lensVars>>

\* the user cancels the running job
CancelAdd ==
    /\ pcA # "idle"
    /\ ~add_canceled
    /\ add_canceled' = TRUE
    /\ UNCHANGED <<bracket_image_sets, bracket_thumbnail_sets,
                   selected_bracket_image_index, job_queue, pcA, paths_left, img,
                   add_log>>
    /\ UNCHANGED <<algVars, jobVars, emorVars, mapVars, saveVars, lensVars>>

\* the queued "Compute Exposure Mappings" job runs (its steps are those of
\* SpecMappings; it leaves the image sets alone)
RunMappingsJob ==
    /\ pcA = "idle"
    /\ job_queue # <<>>
    /\ Head(job_queue).kind = "mappings"
    /\ job_queue' = Tail(job_queue)
    /\ UNCHANGED <<bracket_image_sets, bracket_thumbnail_sets,
                   selected_bracket_image_index, pcA, paths_left, img,
                   add_canceled, add_log>>
    /\ UNCHANGED <<algVars, jobVars, emorVars, mapVars, saveVars, lensVars>>

set_removed_images_only(set_index) ==
    [image_sets |-> IF set_index < Len(bracket_image_sets)
                    THEN remove_at(bracket_image_sets, set_index)
                    ELSE bracket_image_sets,
     thumbnail_sets |-> bracket_thumbnail_sets,
     selected |-> selected_bracket_image_index]

\* remove_bracket_image_set(set_index): what it leaves in the two lists and
\* in the selection
set_removed(set_index) ==
    LET image_sets == IF set_index < Len(bracket_image_sets)
                      THEN remove_at(bracket_image_sets, set_index)
                      ELSE bracket_image_sets
        thumbnail_sets == IF set_index < Len(bracket_thumbnail_sets)
                          THEN remove_at(bracket_thumbnail_sets, set_index)
                          ELSE bracket_thumbnail_sets
        new_set_index == saturating_sub(Len(thumbnail_sets), 1)
        new_image_index == IF new_set_index < Len(thumbnail_sets)
                           THEN saturating_sub(Len(thumbnail_sets[new_set_index + 1]), 1)
                           ELSE 0
        selected == selected_bracket_image_index
    IN [image_sets |-> image_sets,
        thumbnail_sets |-> thumbnail_sets,
        selected |->
            IF set_index > Len(thumbnail_sets)
            THEN <<new_set_index, new_image_index>>
            ELSE IF set_index = selected[1]
            THEN <<selected[1], 0>>
            ELSE IF set_index < selected[1]
            THEN <<selected[1] - 1, selected[2]>>
            ELSE selected]

\* UI: the remove button of a set, enabled while no job is queued or running
RemoveBracketImageSet ==
    /\ job_count = 0
    /\ \E set_index \in 0..(Len(bracket_thumbnail_sets) - 1) :
          \E r \in {set_removed(set_index)} :
             /\ bracket_image_sets' = r.image_sets
             /\ bracket_thumbnail_sets' = r.thumbnail_sets
             /\ selected_bracket_image_index' = r.selected
    /\ job_queue' = Append(job_queue, MappingsJob)
    /\ UNCHANGED <<pcA, paths_left, img, add_canceled, add_log>>
    /\ UNCHANGED <<algVars, jobVars, emorVars, mapVars, saveVars, lensVars>>

\* UI: the remove button of an image, enabled while no job is queued or running
RemoveBracketImage ==
    /\ job_count = 0
    /\ \E set_index \in 0..(Len(bracket_thumbnail_sets) - 1) :
          \E image_index \in 0..(Len(bracket_thumbnail_sets[set_index + 1]) - 1) :
             IF set_index >= Len(bracket_image_sets)
             THEN UNCHANGED <<bracket_image_sets, bracket_thumbnail_sets,
                              selected_bracket_image_index, job_queue>>
             ELSE IF image_index >= Len(bracket_image_sets[set_index + 1])
             THEN UNCHANGED <<bracket_image_sets, bracket_thumbnail_sets,
                              selected_bracket_image_index, job_queue>>
             ELSE IF Len(bracket_image_sets[set_index + 1]) <= 1
             THEN \E r \in {set_removed(set_index)} :
                     /\ bracket_image_sets' = r.image_sets
                     /\ bracket_thumbnail_sets' = r.thumbnail_sets
                     /\ selected_bracket_image_index' = r.selected
                     /\ job_queue' = Append(job_queue, MappingsJob)
             ELSE /\ bracket_image_sets' =
                         [bracket_image_sets EXCEPT ![set_index + 1] = remove_at(@, image_index)]
                  /\ bracket_thumbnail_sets' =
                         IF /\ set_index < Len(bracket_thumbnail_sets)
                            /\ image_index < Len(bracket_thumbnail_sets[set_index + 1])
                         THEN [bracket_thumbnail_sets EXCEPT
                                   ![set_index + 1] = remove_at(@, image_index)]
                         ELSE bracket_thumbnail_sets
                  /\ selected_bracket_image_index' =
                         IF /\ selected_bracket_image_index[1] = set_index
                            /\ selected_bracket_image_index[2] > image_index
                         THEN <<selected_bracket_image_index[1],
                                selected_bracket_image_index[2] - 1>>
                         ELSE selected_bracket_image_index
                  /\ job_queue' = Append(job_queue, MappingsJob)
    /\ UNCHANGED <<pcA, paths_left, img, add_canceled, add_log>>
    /\ UNCHANGED <<algVars, jobVars, emorVars, mapVars, saveVars, lensVars>>

\* the lens cap images the "Add Image(s)" job can load
LensCapInfos == {info \in ImageInfos : info.width = 1 /\ info.height = 1}

AddLensCapJob(n) == [kind |-> "add_lens", paths |-> n]

\* UI: lens cap files are dropped or picked; the job is queued
AddLensCapImageFiles ==
    /\ Len(job_queue) + 1 <= MaxQueued
    /\ \E n \in 1..MaxImageLoad :
          /\ images_held + n <= MaxImageLoad
          /\ job_queue' = Append(job_queue, AddLensCapJob(n))
    /\ UNCHANGED <<bracket_image_sets, bracket_thumbnail_sets,
                   selected_bracket_image_index, pcA, paths_left, img,
                   add_canceled, add_log>>
    /\ UNCHANGED <<algVars, jobVars, emorVars, mapVars, saveVars, lensVars>>

\* job: the closure of add_lens_cap_image_files starts
LensCapJobStart ==
    /\ pcA = "idle"
    /\ job_queue # <<>>
    /\ Head(job_queue).kind = "add_lens"
    /\ job_queue' = Tail(job_queue)
    /\ paths_left' = Head(job_queue).paths
    /\ pcA' = "lens_loop"
    /\ UNCHANGED <<bracket_image_sets, bracket_thumbnail_sets,
                   selected_bracket_image_index, img, add_canceled, add_log>>
    /\ UNCHANGED <<algVars, jobVars, emorVars, mapVars, saveVars, lensVars>>

\* job: the next path is drained and loaded; a file that cannot be loaded
\* ends the job
LensCapJobLoad ==
    /\ pcA = "lens_loop"
    /\ paths_left > 0
    /\ ~add_canceled
    /\ \/ /\ \E e \in {"no_access", "unknown_format"} : add_log' = add_log \cup {e}
          /\ paths_left' = 0
          /\ pcA' = "idle"
          /\ UNCHANGED img
       \/ /\ \E image \in LensCapInfos : img' = Some(image)
          /\ paths_left' = paths_left - 1
          /\ pcA' = "lens_push_thumbnail"
          /\ UNCHANGED add_log
    /\ UNCHANGED <<bracket_image_sets, bracket_thumbnail_sets,
                   selected_bracket_image_index, job_queue, add_canceled>>
    /\ UNCHANGED <<algVars, jobVars, emorVars, mapVars, saveVars, lensVars>>

\* job: ui_data.lock_mut().lens_cap_thumbnails.push(..)
LensCapJobPushThumbnail ==
    /\ pcA = "lens_push_thumbnail"
    /\ lens_cap_thumbnails' = Append(lens_cap_thumbnails, img[1])
    /\ pcA' = "lens_push_image"
    /\ UNCHANGED <<lens_cap_images, selected_lens_cap_image_index>>
    /\ UNCHANGED <<bracket_image_sets, bracket_thumbnail_sets,
                   selected_bracket_image_index, job_queue, paths_left, img,
                   add_canceled, add_log>>
    /\ UNCHANGED <<algVars, jobVars, emorVars, mapVars, saveVars>>

\* job: lens_cap_images.lock_mut().push(histograms)
LensCapJobPushImage ==
    /\ pcA = "lens_push_image"
    /\ lens_cap_images' = Append(lens_cap_images, img[1])
    /\ img' = None
    /\ pcA' = "lens_loop"
    /\ UNCHANGED <<lens_cap_thumbnails, selected_lens_cap_image_index>>
    /\ UNCHANGED <<bracket_image_sets, bracket_thumbnail_sets,
                   selected_bracket_image_index, job_queue, paths_left,
                   add_canceled, add_log>>
    /\ UNCHANGED <<algVars, jobVars, emorVars, mapVars, saveVars>>

\* job: the paths are drained, or the flag is set: the job ends
LensCapJobEnd ==
    /\ pcA = "lens_loop"
    /\ paths_left = 0 \/ add_canceled
    /\ paths_left' = 0
    /\ add_canceled' = FALSE
    /\ pcA' = "idle"
    /\ UNCHANGED <<bracket_image_sets, bracket_thumbnail_sets,
                   selected_bracket_image_index, job_queue, img, add_log>>
    /\ UNCHANGED <<algVars, jobVars, emorVars, mapVars, saveVars, lensVars>>

\* UI: the remove button of a lens cap image, enabled while no job is queued
\* or running; Vec::remove panics on an index that is out of range
RemoveLensCapImage ==
    /\ job_count = 0
    /\ \E image_index \in 0..(Len(lens_cap_thumbnails) - 1) :
          IF image_index >= Len(lens_cap_images)
          THEN /\ add_log' = add_log \cup {"remove_panicked"}
               /\ UNCHANGED lensVars
          ELSE /\ lens_cap_images' = remove_at(lens_cap_images, image_index)
               /\ lens_cap_thumbnails' = remove_at(lens_cap_thumbnails, image_index)
               /\ selected_lens_cap_image_index' =
                      IF selected_lens_cap_image_index > image_index
                      THEN saturating_sub(selected_lens_cap_image_index, 1)
                      ELSE selected_lens_cap_image_index
               /\ UNCHANGED add_log
    /\ UNCHANGED <<bracket_image_sets, bracket_thumbnail_sets,
                   selected_bracket_image_index, job_queue, pcA, paths_left, img,
                   add_canceled>>
    /\ UNCHANGED <<algVars, jobVars, emorVars, mapVars, saveVars>>

\* UI: a click on the thumbnail of a bracket image selects it
SelectBracketImage ==
    /\ \E set_i \in 0..(Len(bracket_thumbnail_sets) - 1) :
          \E img_i \in 0..(Len(bracket_thumbnail_sets[set_i + 1]) - 1) :
             selected_bracket_image_index' = <<set_i, img_i>>
    /\ UNCHANGED <<bracket_image_sets, bracket_thumbnail_sets, job_queue, pcA,
                   paths_left, img, add_canceled, add_log>>
    /\ UNCHANGED <<algVars, jobVars, emorVars, mapVars, saveVars, lensVars>>

\* UI: a click on the thumbnail of a lens cap image selects it
SelectLensCapImage ==
    /\ \E img_i \in 0..(Len(lens_cap_thumbnails) - 1) :
          selected_lens_cap_image_index' = img_i
    /\ UNCHANGED <<lens_cap_images, lens_cap_thumbnails>>
    /\ UNCHANGED <<bracket_image_sets, bracket_thumbnail_sets,
                   selected_bracket_image_index, job_queue, pcA, paths_left, img,
                   add_canceled, add_log>>
    /\ UNCHANGED <<algVars, jobVars, emorVars, mapVars, saveVars>>

InitImages ==
    /\ bracket_image_sets = <<>>
    /\ bracket_thumbnail_sets = <<>>
    /\ selected_bracket_image_index = <<0, 0>>
    /\ job_queue = <<>>
    /\ pcA = "idle"
    /\ paths_left = 0
    /\ img = None
    /\ add_canceled = FALSE
    /\ add_log = {}
    /\ lens_cap_images = <<>>
    /\ lens_cap_thumbnails = <<>>
    /\ selected_lens_cap_image_index = 0
    /\ AlgIdle
    /\ JobIdle
    /\ EmorIdle
    /\ MapIdle
    /\ SaveIdle

NextImages ==
    \/ AddBracketImageFiles
    \/ AddJobNewImageSet
    \/ AddJobNewThumbnailSet
    \/ AddJobLoad
    \/ AddJobCheck
    \/ AddJobPushThumbnail
    \/ AddJobPushImage
    \/ AddJobEnd
    \/ CancelAdd
    \/ RunMappingsJob
    \/ RemoveBracketImageSet
    \/ RemoveBracketImage
    \/ AddLensCapImageFiles
    \/ LensCapJobStart
    \/ LensCapJobLoad
    \/ LensCapJobPushThumbnail
    \/ LensCapJobPushImage
    \/ LensCapJobEnd
    \/ RemoveLensCapImage
    \/ SelectBracketImage
    \/ SelectLensCapImage

SpecImages == InitImages /\ [][NextImages]_vars

-----------------------------------------------------------------------------
(* OCIOConfig::validate (sub_crates/ocio_gen/src/config.rs)                *)
(*                                                                         *)
(* A config is the record of the fields validate reads: the names of its   *)
(* colour spaces, its roles, its displays (a name and the colour spaces of *)
(* its views) and the names of its looks.                                  *)

\* a config has at most MaxConfigItems entries in all
MaxConfigItems == 4

SpaceNames == {"linear", "srgb"}
DisplayNames == {"monitor", "tv"}
LookNames == {"film", "bleach"}
OtherRoleNames == {"scene_linear", "default"}

BUILTIN_ROLES == {"reference", "aces_interchange", "cie_xyz_d65_interchange",
                  "default", "data"}

ListsUpTo(S, n) == UNION {[1..k -> S] : k \in 0..n}

OptionOf(S) == {None} \cup {Some(x) : x \in S}

BuiltinRoleSettings ==
    [reference : OptionOf(SpaceNames),
     aces_interchange : OptionOf(SpaceNames),
     cie_xyz_d65_interchange : OptionOf(SpaceNames),
     default : OptionOf(SpaceNames),
     data : OptionOf(SpaceNames)]

\* roles.other: a map from role name to colour space name
OtherRoles == UNION {[D -> SpaceNames] : D \in SUBSET OtherRoleNames}

Displays == [name : DisplayNames, views : ListsUpTo(SpaceNames, 1)]

\* the roles of the struct, in the order validate checks them
builtin_spaces(roles) ==
    <<roles.reference, roles.aces_interchange, roles.cie_xyz_d65_interchange,
      roles.default, roles.data>>

RECURSIVE count_some(_, _)
count_some(options, n) ==
    IF n = 0 THEN 0
    ELSE count_some(options, n - 1) + (IF options[n] = None THEN 0 ELSE 1)

RECURSIVE count_views(_, _)
count_views(displays, n) ==
    IF n = 0 THEN 0 ELSE count_views(displays, n - 1) + Len(displays[n].views)

\* the position of the first name that HashSet::insert finds present, 0 when
\* there is none
RECURSIVE first_duplicate(_, _)
first_duplicate(names, i) ==
    IF i > Len(names) THEN 0
    ELSE IF \E j \in 1..(i - 1) : names[j] = names[i] THEN i
    ELSE first_duplicate(names, i + 1)

\* the position of the first Some(space) whose space is not a colour space
RECURSIVE first_absent(_, _, _)
first_absent(options, colorspaces, i) ==
    IF i > Len(options) THEN 0
    ELSE IF options[i] # None /\ options[i][1] \notin colorspaces THEN i
    ELSE first_absent(options, colorspaces, i + 1)

display_names(displays) == [i \in 1..Len(displays) |-> displays[i].name]

\* the view colour spaces in the order of the two nested loops
RECURSIVE view_spaces(_, _)
view_spaces(displays, n) ==
    IF n = 0 THEN <<>>
    ELSE view_spaces(displays, n - 1) \o [i \in 1..Len(displays[n].views) |->
                                             Some(displays[n].views[i])]

\* the roles of roles.other that are already in the set of the five
\* built-in role names
duplicate_roles_none(other) == {}

duplicate_roles(other) == {role \in DOMAIN other : role \in BUILTIN_ROLES}

Ok == <<"Ok">>
Error(kind, name) == <<kind, name>>

\* validate: the results it can return.  The iteration order of roles.other,
\* a HashMap, is not fixed, so that any of its failing entries can be the one
\* reported.
validate(config) ==
    LET colorspaces == {config.colorspaces[i] : i \in 1..Len(config.colorspaces)}
        dup_space == first_duplicate(config.colorspaces, 1)
        dup_display == first_duplicate(display_names(config.displays), 1)
        dup_look == first_duplicate(config.looks, 1)
        absent_builtin == first_absent(builtin_spaces(config.roles), colorspaces, 1)
        absent_other == {role \in DOMAIN config.roles_other :
                            config.roles_other[role] \notin colorspaces}
        views == view_spaces(config.displays, Len(config.displays))
        absent_view == first_absent(views, colorspaces, 1)
    IN IF dup_space # 0
       THEN {Error("DuplicateColorSpace", config.colorspaces[dup_space])}
       ELSE IF duplicate_roles(config.roles_other) # {}
       THEN {Error("DuplicateRole", role) : role \in duplicate_roles(config.roles_other)}
       ELSE IF dup_display # 0
       THEN {Error("DuplicateDisplay", config.displays[dup_display].name)}
       ELSE IF dup_look # 0
       THEN {Error("DuplicateLook", config.looks[dup_look])}
       ELSE IF absent_builtin # 0
       THEN {Error("ReferenceToAbsentColorSpace",
                   builtin_spaces(config.roles)[absent_builtin][1])}
       ELSE IF absent_other # {}
       THEN {Error("ReferenceToAbsentColorSpace", config.roles_other[role]) :
                role \in absent_other}
       ELSE IF absent_view # 0
       THEN {Error("ReferenceToAbsentColorSpace", views[absent_view][1])}
       ELSE {Ok}

ValidateCall(config) == [fn |-> "validate", config |-> config]

CallValidate ==
    /\ phase = "call"
    /\ call.fn = "validate"
    /\ \E result \in validate(call.config) : ret' = Ret(FALSE, FALSE, result, {})
    /\ phase' = "ret"
    /\ UNCHANGED <<call, jobVars, emorVars, appVars>>

InitOcio ==
    /\ \E colorspaces \in ListsUpTo(SpaceNames, 2), looks \in ListsUpTo(LookNames, 2) :
          /\ Len(colorspaces) + Len(looks) <= MaxConfigItems
          /\ \E displays \in ListsUpTo(Displays, 2) :
                /\ Len(colorspaces) + Len(looks) + Len(displays)
                       + count_views(displays, Len(displays)) <= MaxConfigItems
                /\ \E other \in OtherRoles, roles \in BuiltinRoleSettings :
                      /\ Len(colorspaces) + Len(looks) + Len(displays)
                             + count_views(displays, Len(displays))
                             + Cardinality(DOMAIN other)
                             + count_some(builtin_spaces(roles), 5) <= MaxConfigItems
                      /\ call = ValidateCall([colorspaces |-> colorspaces,
                                              roles |-> roles,
                                              roles_other |-> other,
                                              displays |-> displays,
                                              looks |-> looks])
    /\ phase = "call"
    /\ ret = NoRet
    /\ JobIdle
    /\ EmorIdle
    /\ AppIdle

NextOcio ==
    \/ CallValidate

SpecOcio == InitOcio /\ [][NextOcio]_vars

-----------------------------------------------------------------------------
(* gamut_is_within_gamut (sub_crates/ocio_gen/src/config.rs)               *)
(*                                                                         *)
(* Chromaticity coordinates are integers: grid points for the enumerated   *)
(* gamuts, and units of 1 / 10000 for REC709 and REC2020.  The products of *)
(* sign are exact on them.                                                 *)

GamutGrid == 2

GridPoints == (0..GamutGrid) \X (0..GamutGrid)
CornerPoints == {0, GamutGrid} \X {0, GamutGrid}

Chromaticities(r, g, b, w) == [r |-> r, g |-> g, b |-> b, w |-> w]

REC709 == Chromaticities(<<6400, 3300>>, <<3000, 6000>>, <<1500, 600>>, <<3127, 3290>>)
REC2020 == Chromaticities(<<7080, 2920>>, <<1700, 7970>>, <<1310, 460>>, <<3127, 3290>>)

\* gamuts with primaries at the corners of the grid and any white point
GridGamuts ==
    {Chromaticities(r, g, b, w) :
        r \in CornerPoints, g \in CornerPoints, b \in CornerPoints, w \in GridPoints}

sign(pa, pb1, pb2) ==
    (pa[1] - pb2[1]) * (pb1[2] - pb2[2]) - (pb1[1] - pb2[1]) * (pa[2] - pb2[2])

point_in_triangle_strict(pt, v1, v2, v3) ==
    \/ sign(pt, v1, v2) < 0 /\ sign(pt, v2, v3) < 0 /\ sign(pt, v3, v1) < 0
    \/ sign(pt, v1, v2) > 0 /\ sign(pt, v2, v3) > 0 /\ sign(pt, v3, v1) > 0

point_in_triangle(pt, v1, v2, v3) ==
    The({~(has_neg /\ has_pos) :
            has_neg \in {d1 < 0 \/ d2 < 0 \/ d3 < 0 :
                            d1 \in {sign(pt, v1, v2)},
                            d2 \in {sign(pt, v2, v3)},
                            d3 \in {sign(pt, v3, v1)}},
            has_pos \in {d1 > 0 \/ d2 > 0 \/ d3 > 0 :
                            d1 \in {sign(pt, v1, v2)},
                            d2 \in {sign(pt, v2, v3)},
                            d3 \in {sign(pt, v3, v1)}}})

gamut_is_within_gamut(g1, g2) ==
    /\ point_in_triangle(g1.r, g2.r, g2.g, g2.b)
    /\ point_in_triangle(g1.g, g2.r, g2.g, g2.b)
    /\ point_in_triangle(g1.b, g2.r, g2.g, g2.b)
    /\ point_in_triangle(g1.w, g2.r, g2.g, g2.b)

GamutCall(g1, g2) == [fn |-> "gamut_is_within_gamut", g1 |-> g1, g2 |-> g2]

\* the white point of g2 is never read: it is drawn from the corners only
GamutCalls(gamuts) ==
    {GamutCall(g1, g2) : g1 \in gamuts,
                         g2 \in {g \in gamuts : g.w \in CornerPoints}}
    \cup {GamutCall(g1, g2) : g1 \in {REC709, REC2020}, g2 \in {REC709, REC2020}}

CallGamutIsWithinGamut ==
    /\ phase = "call"
    /\ call.fn = "gamut_is_within_gamut"
    /\ ret' = Ret(FALSE, FALSE, gamut_is_within_gamut(call.g1, call.g2), {})
    /\ phase' = "ret"
    /\ UNCHANGED <<call, jobVars, emorVars, appVars>>

InitGamut ==
    /\ call \in GamutCalls(GridGamuts)
    /\ phase = "call"
    /\ ret = NoRet
    /\ JobIdle
    /\ EmorIdle
    /\ AppIdle

NextGamut ==
    \/ CallGamutIsWithinGamut

SpecGamut == InitGamut /\ [][NextGamut]_vars

-----------------------------------------------------------------------------
(* Harness of lerp_curve_at_x and lerp_curve_at_y (utils.rs) *)

\* longest curve passed to lerp_curve_at_x / lerp_curve_at_y
MaxCurveLen == 3

CurvePoints == SampleVals \X SampleVals

InputCurves == UNION {[1..n -> CurvePoints] : n \in 0..MaxCurveLen}

\* queries inside and outside [0, 1], on and off the stored keys
CurveQueries == {k * (One \div 4) : k \in {0 - 2, 0, 1, 2, 3, 4, 6}}

CurveCall(fn, curve, t) == [fn |-> fn, curve |-> curve, t |-> t]

LerpCurveCalls(curves) ==
    {CurveCall(fn, curve, t) :
        fn \in {"lerp_curve_at_x", "lerp_curve_at_y"},
        curve \in curves,
        t \in CurveQueries}

LookupRet(r) == Ret(r.panic, r.divz, IF r.panic \/ r.divz THEN <<>> ELSE <<r.val>>, {})

CallLerpCurveAtX ==
    /\ phase = "call"
    /\ call.fn = "lerp_curve_at_x"
    /\ phase' = "ret"
    /\ ret' = LookupRet(lerp_curve_at_x(call.curve, call.t))
    /\ UNCHANGED <<call, jobVars, emorVars, appVars>>

CallLerpCurveAtY ==
    /\ phase = "call"
    /\ call.fn = "lerp_curve_at_y"
    /\ phase' = "ret"
    /\ ret' = LookupRet(lerp_curve_at_y(call.curve, call.t))
    /\ UNCHANGED <<call, jobVars, emorVars, appVars>>

InitLerpCurve ==
    /\ call \in LerpCurveCalls(InputCurves)
    /\ phase = "call"
    /\ ret = NoRet
    /\ JobIdle
    /\ EmorIdle
    /\ AppIdle

NextLerpCurve ==
    \/ CallLerpCurveAtX
    \/ CallLerpCurveAtY

SpecLerpCurve == InitLerpCurve /\ [][NextLerpCurve]_vars

-----------------------------------------------------------------------------
(* Harness of eval_emor (emor.rs) *)

\* off-grid positions are k / EvalGrid
EvalGrid == 8

\* the tabulated positions and positions between them
EvalXs ==
    {sample_x(i) : i \in 0..(Samples - 1)} \cup {FDiv(k * One, EvalGrid) : k \in 0..EvalGrid}

EvalCall(factors, x) == [fn |-> "eval_emor", factors |-> factors, x |-> x]

EvalCalls == {EvalCall(f, x) : f \in [1..FactorCount -> FactorVals], x \in EvalXs}

CallEvalEmor ==
    /\ phase = "call"
    /\ call.fn = "eval_emor"
    /\ phase' = "ret"
    /\ ret' = Ret(FALSE, FALSE, <<eval_emor(call.factors, call.x)>>, {})
    /\ UNCHANGED <<call, jobVars, emorVars, appVars>>

InitEval ==
    /\ call \in EvalCalls
    /\ phase = "call"
    /\ ret = NoRet
    /\ JobIdle
    /\ EmorIdle
    /\ AppIdle

NextEval ==
    \/ CallEvalEmor

SpecEval == InitEval /\ [][NextEval]_vars


-----------------------------------------------------------------------------
(* The sensor floor and sensor ceiling estimation jobs (bin/lut_maker/     *)
(* main.rs: estimate_sensor_floor, estimate_sensor_ceiling,                *)
(* bracket_images_to_histogram_sets)                                       *)
(*                                                                         *)
(* The estimator of the sensor_analysis crate is outside the model: an     *)
(* estimate is some level, the same in every channel.  A job that panics   *)
(* leaves pcA at "panicked".                                               *)

\* one list per set: the images of the set that have an exposure
bracket_images_to_histogram_sets(image_sets) ==
    [s \in 1..Len(image_sets) |->
        SelectSeq(image_sets[s], LAMBDA src_img : src_img.exposure # None)]

RECURSIVE thumbnail_count(_, _)
thumbnail_count(sets, n) ==
    IF n = 0 THEN 0 ELSE thumbnail_count(sets, n - 1) + Len(sets[n])

\* bracket_thumbnail_sets.iter().map(|s| s.len()).sum()
total_bracket_images == thumbnail_count(bracket_thumbnail_sets, Len(bracket_thumbnail_sets))

SensorFloorJob == [kind |-> "floor", paths |-> 0]
SensorCeilingJob == [kind |-> "ceiling", paths |-> 0]

SensorEstimates == {[chan \in 1..CHANNELS |-> v] : v \in Levels}

\* the loop over histogram_sets: "canceled" when the flag is set as the first
\* set is reached, "panicked" when histograms[i][0] is read in an empty list,
\* "estimated" otherwise
sensor_loop(histogram_sets) ==
    IF histogram_sets # <<>> /\ add_canceled THEN "canceled"
    ELSE IF \E s \in 1..Len(histogram_sets) : histogram_sets[s] = <<>> THEN "panicked"
    ELSE "estimated"

\* UI: the Estimate button of the sensor noise floor
EstimateSensorFloor ==
    /\ job_count = 0
    /\ total_bracket_images > 0 \/ Len(lens_cap_thumbnails) > 0
    /\ job_queue' = Append(job_queue, SensorFloorJob)
    /\ UNCHANGED <<bracket_image_sets, bracket_thumbnail_sets,
                   selected_bracket_image_index, pcA, paths_left, img,
                   add_canceled, add_log>>
    /\ UNCHANGED <<algVars, jobVars, emorVars, mapVars, saveVars, lensVars>>

\* UI: the Estimate button of the sensor ceiling
EstimateSensorCeiling ==
    /\ job_count = 0
    /\ total_bracket_images > 0
    /\ job_queue' = Append(job_queue, SensorCeilingJob)
    /\ UNCHANGED <<bracket_image_sets, bracket_thumbnail_sets,
                   selected_bracket_image_index, pcA, paths_left, img,
                   add_canceled, add_log>>
    /\ UNCHANGED <<algVars, jobVars, emorVars, mapVars, saveVars, lensVars>>

\* job "Estimate Sensor Noise Floor"
RunSensorFloorJob ==
    /\ pcA = "idle"
    /\ job_queue # <<>>
    /\ Head(job_queue).kind = "floor"
    /\ job_queue' = Tail(job_queue)
    /\ IF lens_cap_images # <<>>
       THEN /\ \E floor \in SensorEstimates : sensor_floor' = floor
            /\ UNCHANGED pcA
       ELSE \E outcome \in {sensor_loop(bracket_images_to_histogram_sets(bracket_image_sets))} :
               /\ pcA' = IF outcome = "panicked" THEN "panicked" ELSE pcA
               /\ IF outcome = "estimated"
                  THEN \E floor \in SensorEstimates : sensor_floor' = floor
                  ELSE UNCHANGED sensor_floor
    /\ UNCHANGED <<sensor_ceiling, transfer_function_type, to_linear, lut, lut_file,
                   save_log, pcS>>
    /\ UNCHANGED <<bracket_image_sets, bracket_thumbnail_sets,
                   selected_bracket_image_index, paths_left, img, add_canceled, add_log>>
    /\ UNCHANGED <<algVars, jobVars, emorVars, mapVars, lensVars>>

\* job "Estimate Sensor Ceiling"
RunSensorCeilingJob ==
    /\ pcA = "idle"
    /\ job_queue # <<>>
    /\ Head(job_queue).kind = "ceiling"
    /\ job_queue' = Tail(job_queue)
    /\ \E outcome \in {sensor_loop(bracket_images_to_histogram_sets(bracket_image_sets))} :
          /\ pcA' = IF outcome = "panicked" THEN "panicked" ELSE pcA
          /\ IF outcome = "estimated"
             THEN \E ceiling \in SensorEstimates : sensor_ceiling' = ceiling
             ELSE UNCHANGED sensor_ceiling
    /\ UNCHANGED <<sensor_floor, transfer_function_type, to_linear, lut, lut_file,
                   save_log, pcS>>
    /\ UNCHANGED <<bracket_image_sets, bracket_thumbnail_sets,
                   selected_bracket_image_index, paths_left, img, add_canceled, add_log>>
    /\ UNCHANGED <<algVars, jobVars, emorVars, mapVars, lensVars>>

InitSensor ==
    /\ bracket_image_sets = <<>>
    /\ bracket_thumbnail_sets = <<>>
    /\ selected_bracket_image_index = <<0, 0>>
    /\ job_queue = <<>>
    /\ pcA = "idle"
    /\ paths_left = 0
    /\ img = None
    /\ add_canceled = FALSE
    /\ add_log = {}
    /\ lens_cap_images = <<>>
    /\ lens_cap_thumbnails = <<>>
    /\ selected_lens_cap_image_index = 0
    /\ sensor_floor = [chan \in 1..CHANNELS |-> 0]
    /\ sensor_ceiling = [chan \in 1..CHANNELS |-> One]
    /\ transfer_function_type = "none"
    /\ to_linear = FALSE
    /\ lut = None
    /\ lut_file = None
    /\ save_log = {}
    /\ pcS = "idle"
    /\ AlgIdle
    /\ JobIdle
    /\ EmorIdle
    /\ MapIdle

NextSensor ==
    \/ AddBracketImageFiles
    \/ AddJobNewImageSet
    \/ AddJobNewThumbnailSet
    \/ AddJobLoad
    \/ AddJobCheck
    \/ AddJobPushThumbnail
    \/ AddJobPushImage
    \/ AddJobEnd
    \/ RunMappingsJob
    \/ AddLensCapImageFiles
    \/ LensCapJobStart
    \/ LensCapJobLoad
    \/ LensCapJobPushThumbnail
    \/ LensCapJobPushImage
    \/ LensCapJobEnd
    \/ EstimateSensorFloor
    \/ EstimateSensorCeiling
    \/ RunSensorFloorJob
    \/ RunSensorCeilingJob

SpecSensor == InitSensor /\ [][NextSensor]_vars


-----------------------------------------------------------------------------
(* The export buttons, the transfer function selection and the Estimate    *)
(* button of AppMain::update (bin/lut_maker.rs), with the jobs they queue  *)
(*                                                                         *)
(* The running job is at pcA: "estimate" while the steps of the estimation *)
(* job run (pc), "save" while those of the "Save LUT" job run (pcS).  The  *)
(* mappings the images give and ui_data.rounds are drawn when the          *)
(* estimation job starts.                                                  *)

EstimateJob == [kind |-> "estimate", paths |-> 0]
SaveLutJob(linear) ==
    [kind |-> IF linear THEN "save_to_linear" ELSE "save_from_linear", paths |-> 0]

export_enabled_any_type == job_count = 0

\* the condition that enables the two export buttons
export_enabled ==
    job_count = 0 /\ (tables # None \/ transfer_function_type # "Estimated")

\* UI: the combo box of the transfer function, enabled while no job is
\* queued or running
SelectTransferFunction ==
    /\ job_count = 0
    /\ \E tf \in TransferFunctions : transfer_function_type' = tf
    /\ UNCHANGED <<sensor_floor, sensor_ceiling, to_linear, lut, lut_file, save_log, pcS>>
    /\ UNCHANGED <<algVars, jobVars, emorVars, mapVars, imageVars>>

\* UI: the sliders of the sensor floor (those of the ceiling are left alone)
SetSensorFloor ==
    /\ job_count = 0
    /\ \E floor \in SensorEstimates : sensor_floor' = floor
    /\ UNCHANGED <<sensor_ceiling, transfer_function_type, to_linear, lut, lut_file,
                   save_log, pcS>>
    /\ UNCHANGED <<algVars, jobVars, emorVars, mapVars, imageVars>>

\* UI: the Estimate button: estimate_transfer_curve queues the job, in
\* main.rs after the job of compute_exposure_mappings
ClickEstimate ==
    /\ job_count = 0
    /\ job_queue' = IF variant = "main_rs"
                    THEN job_queue \o <<MappingsJob, EstimateJob>>
                    ELSE Append(job_queue, EstimateJob)
    /\ UNCHANGED <<bracket_image_sets, bracket_thumbnail_sets,
                   selected_bracket_image_index, pcA, paths_left, img,
                   add_canceled, add_log>>
    /\ UNCHANGED <<algVars, jobVars, emorVars, mapVars, saveVars, lensVars>>

\* UI: an export button: save_lut queues the job
ClickExport ==
    /\ export_enabled
    /\ \E linear \in BOOLEAN : job_queue' = Append(job_queue, SaveLutJob(linear))
    /\ UNCHANGED <<bracket_image_sets, bracket_thumbnail_sets,
                   selected_bracket_image_index, pcA, paths_left, img,
                   add_canceled, add_log>>
    /\ UNCHANGED <<algVars, jobVars, emorVars, mapVars, saveVars, lensVars>>

\* the queue starts the estimation job
StartEstimateJob ==
    /\ pcA = "idle"
    /\ job_queue # <<>>
    /\ Head(job_queue).kind = "estimate"
    /\ job_queue' = Tail(job_queue)
    /\ pcA' = "estimate"
    /\ pc' = "start"
    /\ nMappings' \in MappingCounts
    /\ total_rounds' \in 0..MaxRounds
    /\ round_i' = 0
    /\ batch_left' = 0
    /\ est_rounds' = 0
    /\ canceled' = FALSE
    /\ rounds_since_check' = 0
    /\ UNCHANGED <<variant, tables, preview, snap>>
    /\ UNCHANGED <<bracket_image_sets, bracket_thumbnail_sets,
                   selected_bracket_image_index, paths_left, img, add_canceled, add_log>>
    /\ UNCHANGED <<algVars, emorVars, mapVars, saveVars, lensVars>>

\* the user cancels the estimation job while it runs
CancelEstimate == pcA = "estimate" /\ Cancel

\* the estimation job returned, or panicked; its locals are dropped
EndEstimateJob ==
    /\ pcA = "estimate"
    /\ pc \in Terminal
    /\ pcA' = "idle"
    /\ pc' = "idle"
    /\ nMappings' = 0
    /\ total_rounds' = 0
    /\ round_i' = 0
    /\ batch_left' = 0
    /\ est_rounds' = 0
    /\ canceled' = FALSE
    /\ rounds_since_check' = 0
    /\ UNCHANGED <<variant, tables, preview, snap>>
    /\ UNCHANGED <<bracket_image_sets, bracket_thumbnail_sets,
                   selected_bracket_image_index, job_queue, paths_left, img,
                   add_canceled, add_log>>
    /\ UNCHANGED <<algVars, emorVars, mapVars, saveVars, lensVars>>

\* the queue starts the "Save LUT" job
StartSaveLutJob ==
    /\ pcA = "idle"
    /\ job_queue # <<>>
    /\ Head(job_queue).kind \in {"save_to_linear", "save_from_linear"}
    /\ job_queue' = Tail(job_queue)
    /\ pcA' = "save"
    /\ pcS' = "start"
    /\ to_linear' = (Head(job_queue).kind = "save_to_linear")
    /\ lut' = None
    /\ UNCHANGED <<sensor_floor, sensor_ceiling, transfer_function_type, lut_file, save_log>>
    /\ UNCHANGED <<bracket_image_sets, bracket_thumbnail_sets,
                   selected_bracket_image_index, paths_left, img, add_canceled, add_log>>
    /\ UNCHANGED <<algVars, jobVars, emorVars, mapVars, lensVars>>

\* the "Save LUT" job returned, or panicked
EndSaveLutJob ==
    /\ pcA = "save"
    /\ pcS \in {"done", "panicked"}
    /\ pcA' = IF pcS = "panicked" THEN "panicked" ELSE "idle"
    /\ pcS' = "idle"
    /\ UNCHANGED <<sensor_floor, sensor_ceiling, transfer_function_type, to_linear,
                   lut, lut_file, save_log>>
    /\ UNCHANGED <<bracket_image_sets, bracket_thumbnail_sets,
                   selected_bracket_image_index, job_queue, paths_left, img,
                   add_canceled, add_log>>
    /\ UNCHANGED <<algVars, jobVars, emorVars, mapVars, lensVars>>

InitExport ==
    /\ variant \in Variants
    /\ nMappings = 0
    /\ total_rounds = 0
    /\ pc = "idle"
    /\ round_i = 0
    /\ batch_left = 0
    /\ est_rounds = 0
    /\ canceled = FALSE
    /\ rounds_since_check = 0
    /\ tables = None
    /\ preview = None
    /\ snap = [tables |-> None, preview |-> None, full |-> FALSE]
    /\ sensor_floor = [chan \in 1..CHANNELS |-> 0]
    /\ sensor_ceiling = [chan \in 1..CHANNELS |-> One]
    /\ transfer_function_type = "Estimated"
    /\ to_linear = FALSE
    /\ lut = None
    /\ lut_file = None
    /\ save_log = {}
    /\ pcS = "idle"
    /\ AlgIdle
    /\ EmorIdle
    /\ MapIdle
    /\ ImageIdle

NextExport ==
    \/ SelectTransferFunction
    \/ SetSensorFloor
    \/ ClickEstimate
    \/ ClickExport
    \/ RunMappingsJob
    \/ StartEstimateJob
    \/ BeginMain
    \/ BuildMappingsCanceled
    \/ BeginLutMaker
    \/ LoopCheck
    \/ DoRound
    \/ PublishTables
    \/ PublishPreview
    \/ CancelEstimate
    \/ EndEstimateJob
    \/ StartSaveLutJob
    \/ SaveLutCheck
    \/ SaveLutCompute
    \/ SaveLutWrite
    \/ EndSaveLutJob

SpecExport == InitExport /\ [][NextExport]_vars


-----------------------------------------------------------------------------
(* save_lut: the renormalization of an estimated table by the sensor floor *)
(* and ceiling of a channel (bin/lut_maker/main.rs)                        *)

\* floor and ceiling are k / RenormGrid, k in 0..RenormGrid
RenormGrid == 4

RenormLevels == {FDiv(k * One, RenormGrid) : k \in 0..RenormGrid}

\* the divisor ceil - floor of `norm`
renorm_divisor(table, floor, ceiling) ==
    lerp_slice(table, ceiling) - lerp_slice(table, floor)

\* the table after `*n = (*n - floor) * norm`, the product taken as the
\* quotient (n - floor) / (ceil - floor); with a divisor of 0 norm is
\* infinite and no sample of the table is a finite number any more (NaN
\* stands for each of them)
renormalized(table, floor, ceiling) ==
    LET d == renorm_divisor(table, floor, ceiling)
    IN IF d = 0
       THEN Ret(FALSE, TRUE, [i \in 1..Len(table) |-> NaN], {})
       ELSE Ret(FALSE, FALSE,
                [i \in 1..Len(table) |->
                    FDivS((table[i] - lerp_slice(table, floor)) * One, d)],
                {})

RenormCall(factors, floor, ceiling) ==
    [fn |-> "save_lut", factors |-> factors, floor |-> floor, ceiling |-> ceiling]

\* the job returns before the LUT is computed when floor >= ceiling
RenormCalls(levels) ==
    {RenormCall(f, p[1], p[2]) : f \in [1..FactorCount -> FactorVals],
                                 p \in {q \in levels \X levels : q[1] < q[2]}}

CallRenormalize ==
    /\ phase = "call"
    /\ call.fn = "save_lut"
    /\ phase' = "ret"
    /\ ret' = renormalized(emor_factors_to_curve(call.factors), call.floor, call.ceiling)
    /\ UNCHANGED <<call, jobVars, emorVars, appVars>>

InitRenorm ==
    /\ call \in RenormCalls(RenormLevels)
    /\ phase = "call"
    /\ ret = NoRet
    /\ JobIdle
    /\ EmorIdle
    /\ AppIdle

NextRenorm == CallRenormalize

SpecRenorm == InitRenorm /\ [][NextRenorm]_vars

-----------------------------------------------------------------------------
(* Properties of the pure functions *)

Returned(fn) == phase = "ret" /\ call.fn = fn

\* C1: for every factor vector the curve returned by emor_factors_to_curve
\* rises by at least min_diff (up to one unit of rounding) between any two
\* consecutive samples, after the final clamp to [0, 1].
C1_MinStepAfterClamp ==
    Returned("emor_factors_to_curve") =>
        \A i \in 2..Len(ret.val) :
            ret.val[i] - ret.val[i - 1] >= min_diff(Len(ret.val)) - 1

\* C2: every sample of the curve returned by emor_factors_to_curve lies in
\* the closed interval [0, 1].
C2_SamplesInUnitRange ==
    Returned("emor_factors_to_curve") =>
        \A i \in 1..Len(ret.val) : 0 <= ret.val[i] /\ ret.val[i] <= One

\* a returned curve of which the lifting pass left a sample above 1.0 and
\* the basis combination a sample below 0.0
C2_Witness ==
    /\ Returned("emor_factors_to_curve")
    /\ \E i \in 0..(Samples - 1) :
           lifted([k \in 1..Samples |-> emor_at_index(call.factors, k - 1)], i) > One
    /\ \E i \in 0..(Samples - 1) : emor_at_index(call.factors, i) < 0

\* C4: on a non-empty mapping set the error of the estimate never increases
\* from one round to the next.
C4_ErrorNeverIncreases ==
    (pcE = "loop" /\ Len(mappings) > 0) => err <= prev_err

\* C5: flip_slice_xy neither panics nor divides by zero for a table of at
\* least 2 finite samples in [0, 1] and a positive resolution, and returns
\* a table of that resolution.
C5_FlipNeverPanics ==
    (Returned("flip_slice_xy") /\ Len(call.slice) >= 2 /\ call.resolution > 0) =>
        /\ ~ret.panic
        /\ ~ret.divz
        /\ Len(ret.val) = call.resolution

\* C7: lerp_slice returns exactly the first sample at t = 0.0 and exactly
\* the last sample at t = 1.0, and reads no index outside the table.
C7_LerpSliceEndpoints ==
    (Returned("lerp_slice") /\ call.t \in {0, One}) =>
        /\ ~ret.panic
        /\ ret.reads \subseteq 0..(Len(call.slice) - 1)
        /\ ret.val = <<IF call.t = 0 THEN call.slice[1] ELSE Last(call.slice)>>

\* lerp_slice returned at t = 1.0 on a table whose last sample differs from
\* the one before it
C7_Witness ==
    /\ Returned("lerp_slice")
    /\ call.t = One
    /\ Last(call.slice) # call.slice[Len(call.slice) - 1]
    /\ ret.val = <<Last(call.slice)>>

StrictlyIncreasing(s) == \A i \in 2..Len(s) : s[i - 1] < s[i]

\* C6: for a strictly monotonic table T with values in [0, 1] and a
\* resolution R >= 256, inverting T twice at resolution R gives T back,
\* sample by sample, within 1e-3.
C6_RoundTripWithinTolerance ==
    (/\ Returned("round_trip")
     /\ call.resolution >= 256
     /\ StrictlyIncreasing(call.slice)) =>
        /\ ~ret.panic
        /\ Len(ret.val) = Len(call.slice)
        /\ \A i \in 1..Len(ret.val) : 1000 * Abs(ret.val[i] - call.slice[i]) < One

-----------------------------------------------------------------------------
(* Properties of the estimation job *)

\* C3: a run started with zero mappings declines to run: it runs no
\* optimization round, publishes nothing and divides neither by a zero
\* weight sum nor by a zero mapping count.
C3_EmptyMappingsDecline ==
    nMappings = 0 =>
        /\ pc # "panicked"
        /\ est_rounds = 0
        /\ tables = None
        /\ preview = None

PublishedTogether ==
    \/ tables = None /\ preview = None
    \/ tables # None /\ preview # None /\ tables[1] = preview[1][1]

\* C9: a run that observes the cancellation flag exits with the tables and
\* the preview as the last completed publication left them, and a run that
\* has reached a terminal state runs no further round and publishes nothing.
C9_CancellationTerminal ==
    /\ [](pc = "cancelled" => PublishedTogether)
    /\ [][/\ pc' = "cancelled" => UNCHANGED <<tables, preview, est_rounds>>
          /\ pc \in Terminal => UNCHANGED <<pc, tables, preview, est_rounds, round_i>>]_vars

\* a run cancelled after it had published an estimate
C9_Witness ==
    /\ pc = "cancelled"
    /\ tables # None
    /\ preview # None
    /\ round_i > 0

\* C10 as stated: what a concurrent reader copies out is one round's
\* result, also when it reads both the tables and the preview.
C10_ReaderSeesOneRound ==
    (snap.full /\ snap.tables # None) =>
        /\ snap.preview[1][1] = snap.preview[1][2]
        /\ snap.tables[1] = snap.preview[1][1]

\* C10 amended: the preview a reader copies out holds curves and an error
\* of the same completed update; the tables are stored under another lock
\* just before the preview, so that the stored tables are those of the
\* stored preview or of the update after it.
C10_PreviewIsOneUpdate ==
    /\ snap.preview # None =>
           /\ snap.preview[1][1] = snap.preview[1][2]
           /\ snap.preview[1][1] > 0
           /\ snap.preview[1][1] % rounds_per_update = 0
    /\ preview # None =>
           /\ preview[1][1] = preview[1][2]
           /\ tables # None
           /\ tables[1] \in {preview[1][1], preview[1][1] + rounds_per_update}
    /\ (preview = None /\ tables # None) => tables[1] = rounds_per_update

\* a reader copied the preview of a later update than the first
C10_Witness ==
    /\ snap.full
    /\ snap.tables # None
    /\ snap.preview[1][1] > rounds_per_update
    /\ snap.tables[1] # snap.preview[1][1]

-----------------------------------------------------------------------------
(* Properties of the "Compute Exposure Mappings" job *)

\* C11: a pair of histograms of which one has no population, or all of it
\* in bucket 0, yields no mapping: the list stored for the channel has no
\* entry for it.
C11_DegeneratePairSkipped ==
    pcM = "done" =>
        \A chan \in 1..CHANNELS :
            \A n \in 1..Len(exposure_mappings[chan]) :
                ~exposure_mappings[chan][n].degenerate

-----------------------------------------------------------------------------
(* Properties of the "Save LUT" job *)

\* C12: when the sensor floor of at least one channel is greater than or
\* equal to its ceiling, save_lut logs an error and returns before it
\* computes a LUT, and writes no file.
C12_NoLutWhenFloorReachesCeiling ==
    (/\ pcS # "start"
     /\ \/ sensor_floor[1] >= sensor_ceiling[1]
        \/ sensor_floor[2] >= sensor_ceiling[2]
        \/ sensor_floor[3] >= sensor_ceiling[3]) =>
        /\ pcS = "done"
        /\ "floor_not_below_ceiling" \in save_log
        /\ lut = None
        /\ lut_file = None

\* a job that returned at the check because of one channel only
C12_Witness ==
    /\ pcS = "done"
    /\ sensor_floor[1] < sensor_ceiling[1]
    /\ sensor_floor[2] >= sensor_ceiling[2]
    /\ sensor_floor[3] < sensor_ceiling[3]
    /\ "floor_not_below_ceiling" \in save_log

-----------------------------------------------------------------------------
(* Properties of the bracket image sets *)

SameResolution(sets) ==
    \A s \in 1..Len(sets) :
        \A i, j \in 1..Len(sets[s]) :
            /\ sets[s][i].width = sets[s][j].width
            /\ sets[s][i].height = sets[s][j].height

\* C13: the images of one bracket image set all have the same width and
\* height, after any additions and removals; an image whose resolution
\* differs from that of the images already in the set being filled is skipped
\* with an error and added to neither list.
C13_SetsShareResolution ==
    /\ [](SameResolution(bracket_image_sets) /\ SameResolution(bracket_thumbnail_sets))
    /\ [][(/\ pcA = "check"
           /\ pcA' # "check"
           /\ \E i \in 1..Len(Last(bracket_image_sets)) :
                 \/ Last(bracket_image_sets)[i].width # img[1].width
                 \/ Last(bracket_image_sets)[i].height # img[1].height) =>
              /\ pcA' = "loop"
              /\ "different_resolution" \in add_log'
              /\ UNCHANGED <<bracket_image_sets, bracket_thumbnail_sets>>]_vars

\* an image was skipped for its resolution and a set holds two images
C13_Witness ==
    /\ "different_resolution" \in add_log
    /\ job_count = 0
    /\ \E s \in 1..Len(bracket_image_sets) : Len(bracket_image_sets[s]) >= 2

-----------------------------------------------------------------------------
(* Properties of the OCIO configuration *)

Distinct(names) ==
    \A i, j \in 1..Len(names) : i # j => names[i] # names[j]

ConfigSpaces(config) == {config.colorspaces[i] : i \in 1..Len(config.colorspaces)}

\* every colour space a role or a view names is a colour space of the config
ReferencesExist(config) ==
    /\ \A i \in 1..5 :
          builtin_spaces(config.roles)[i] # None =>
              builtin_spaces(config.roles)[i][1] \in ConfigSpaces(config)
    /\ \A role \in DOMAIN config.roles_other :
          config.roles_other[role] \in ConfigSpaces(config)
    /\ \A d \in 1..Len(config.displays) :
          \A v \in 1..Len(config.displays[d].views) :
              config.displays[d].views[v] \in ConfigSpaces(config)

RolesDistinct(config) ==
    \A role \in DOMAIN config.roles_other :
        role \notin {"reference", "aces_interchange", "cie_xyz_d65_interchange",
                     "default", "data"}

DisplaysDistinct(config) ==
    \A i, j \in 1..Len(config.displays) :
        i # j => config.displays[i].name # config.displays[j].name

\* the result the claim asks for
ExpectedValidation(config) ==
    IF ~Distinct(config.colorspaces) THEN "DuplicateColorSpace"
    ELSE IF ~RolesDistinct(config) THEN "DuplicateRole"
    ELSE IF ~DisplaysDistinct(config) THEN "DuplicateDisplay"
    ELSE IF ~Distinct(config.looks) THEN "DuplicateLook"
    ELSE IF ~ReferencesExist(config) THEN "ReferenceToAbsentColorSpace"
    ELSE "Ok"

\* C14: validate returns Ok exactly when the names of the colour spaces, of
\* the roles, of the displays and of the looks are pairwise distinct and
\* every colour space that a role or a display view names exists; otherwise
\* it returns the error of the first failing check, in the order duplicate
\* colour space, role, display, look, absent colour space; the config is
\* left as it was.
C14_ValidateResult ==
    /\ [](Returned("validate") => ret.val[1] = ExpectedValidation(call.config))
    /\ [][call.fn = "validate" => call' = call]_vars

\* a config with a duplicate look and a role naming an absent colour space
C14_Witness ==
    /\ Returned("validate")
    /\ ret.val[1] = "DuplicateLook"
    /\ call.config.roles.reference # None
    /\ call.config.colorspaces = <<>>

-----------------------------------------------------------------------------
(* Properties of gamut_is_within_gamut *)

\* pt is a convex combination of v1, v2, v3: it lies inside or on the
\* boundary of the triangle.  For grid points and corner vertices the weights
\* are multiples of 1 / GamutGrid^2.
InTriangle(pt, v1, v2, v3) ==
    \E a, b \in 0..(GamutGrid * GamutGrid) :
        /\ a + b <= GamutGrid * GamutGrid
        /\ GamutGrid * GamutGrid * pt[1] =
               a * v1[1] + b * v2[1] + (GamutGrid * GamutGrid - a - b) * v3[1]
        /\ GamutGrid * GamutGrid * pt[2] =
               a * v1[2] + b * v2[2] + (GamutGrid * GamutGrid - a - b) * v3[2]

GamutInTriangle(g1, g2) ==
    /\ InTriangle(g1.r, g2.r, g2.g, g2.b)
    /\ InTriangle(g1.g, g2.r, g2.g, g2.b)
    /\ InTriangle(g1.b, g2.r, g2.g, g2.b)
    /\ InTriangle(g1.w, g2.r, g2.g, g2.b)

Collinear(g) ==
    (g.r[1] - g.b[1]) * (g.g[2] - g.b[2]) = (g.g[1] - g.b[1]) * (g.r[2] - g.b[2])

OnGrid(g) == g.r \in GridPoints

\* C15 as stated: the result is true exactly when the four points of g1 lie
\* inside or on the boundary of the triangle of g2, every gamut is within
\* itself, REC709 is within REC2020 and REC2020 is not within REC709.
C15_WithinIffInTriangle ==
    Returned("gamut_is_within_gamut") =>
        /\ (OnGrid(call.g1) /\ OnGrid(call.g2)) =>
               (ret.val <=> GamutInTriangle(call.g1, call.g2))
        /\ call.g1 = call.g2 => ret.val
        /\ (call.g1 = REC709 /\ call.g2 = REC2020) => ret.val
        /\ (call.g1 = REC2020 /\ call.g2 = REC709) => ~ret.val

\* C15 amended: when the primaries of g2 are not collinear the result is
\* true exactly when the four points of g1 lie inside or on the boundary of
\* the triangle of g2; a gamut with such primaries is within itself exactly
\* when its white point lies in its triangle; when the primaries of g2
\* coincide the result is true for every g1 whose points give no edge
\* function of either sign, among them every g1; REC709 is within REC2020 and
\* within itself, REC2020 is within itself and not within REC709.
C15_WithinProperTriangle ==
    Returned("gamut_is_within_gamut") =>
        /\ (OnGrid(call.g1) /\ OnGrid(call.g2) /\ ~Collinear(call.g2)) =>
               (ret.val <=> GamutInTriangle(call.g1, call.g2))
        /\ (OnGrid(call.g1) /\ call.g1 = call.g2 /\ ~Collinear(call.g2)) =>
               (ret.val <=> InTriangle(call.g1.w, call.g1.r, call.g1.g, call.g1.b))
        /\ (call.g2.r = call.g2.g /\ call.g2.g = call.g2.b) => ret.val
        /\ (call.g1 = REC709 /\ call.g2 = REC2020) => ret.val
        /\ (call.g1 = REC2020 /\ call.g2 = REC709) => ~ret.val
        /\ (call.g1 \in {REC709, REC2020} /\ call.g1 = call.g2) => ret.val

\* a gamut with a proper triangle, its white point on an edge of the
\* triangle of g2 and not at a vertex, found within
C15_Witness ==
    /\ Returned("gamut_is_within_gamut")
    /\ OnGrid(call.g1)
    /\ ~Collinear(call.g1)
    /\ ~Collinear(call.g2)
    /\ call.g1.w \notin {call.g2.r, call.g2.g, call.g2.b}
    /\ sign(call.g1.w, call.g2.r, call.g2.g) = 0
    /\ ret.val

-----------------------------------------------------------------------------
(* Properties of flip_slice_xy *)

NonDecreasing(s) == \A i \in 2..Len(s) : s[i - 1] <= s[i]

\* C16: for a table of at least 2 samples and a resolution of at least 2 the
\* point list flip_slice_xy builds before inverting is non-decreasing in x
\* and in y, and the returned table has exactly `resolution` samples, each
\* at least the sample before it.
C16_RunningMaximum ==
    (Returned("flip_slice_xy") /\ Len(call.slice) >= 2 /\ call.resolution >= 2) =>
        /\ Len(flip_curve(call.slice)) = Len(call.slice)
        /\ NonDecreasing([i \in 1..Len(call.slice) |-> PX(flip_curve(call.slice)[i])])
        /\ NonDecreasing([i \in 1..Len(call.slice) |-> PY(flip_curve(call.slice)[i])])
        /\ \A i \in 1..Len(call.slice) : PY(flip_curve(call.slice)[i]) >= call.slice[i]
        /\ ~ret.panic
        /\ Len(ret.val) = call.resolution
        /\ NonDecreasing(ret.val)

\* flip_slice_xy returned on a table that decreases somewhere, at a
\* resolution of 3, with a table that rises
C16_Witness ==
    /\ Returned("flip_slice_xy")
    /\ Len(call.slice) = 3
    /\ call.slice[2] < call.slice[1]
    /\ call.resolution = 3
    /\ Len(ret.val) = 3
    /\ ret.val[1] < ret.val[3]

-----------------------------------------------------------------------------
(* Properties of lerp_curve_at_x and lerp_curve_at_y *)

\* the searched coordinate of the returned call: 1 is x, 2 is y
SearchAxis == IF call.fn = "lerp_curve_at_x" THEN 1 ELSE 2

\* the points of the curve are ordered by their coordinate `axis`
OrderedBy(curve, axis) ==
    \A i \in 2..Len(curve) : curve[i - 1][axis] <= curve[i][axis]

\* the neighbour before t: the last point whose key is below t, or (0, 0)
NeighbourBefore(curve, axis, t) ==
    IF \E i \in 1..Len(curve) : curve[i][axis] < t
    THEN curve[SetMax({i \in 1..Len(curve) : curve[i][axis] < t})]
    ELSE <<0, 0>>

\* the neighbour after t: the first point whose key is above t, or (1, 1)
NeighbourAfter(curve, axis, t) ==
    IF \E i \in 1..Len(curve) : curve[i][axis] > t
    THEN curve[CHOOSE i \in 1..Len(curve) :
                   /\ curve[i][axis] > t
                   /\ \A j \in 1..Len(curve) : curve[j][axis] > t => i <= j]
    ELSE <<One, One>>

\* the value at t of the line through p1 and p2 (p1 and p2 differ in `axis`)
Interpolated(p1, p2, axis, t) ==
    p1[3 - axis]
    + FDivS((p2[3 - axis] - p1[3 - axis]) * (t - p1[axis]), p2[axis] - p1[axis])

-----------------------------------------------------------------------------
(* Properties of eval_emor *)

\* the index of the tabulated position x, -1 when x is not tabulated
TabulatedIndex(x) ==
    IF \E i \in 0..(Samples - 1) : sample_x(i) = x
    THEN CHOOSE i \in 0..(Samples - 1) : sample_x(i) = x
    ELSE 0 - 1

EvalTolerance == (Samples - 1) * (FactorCount * FactorSpan + 1) + FactorCount + 2

-----------------------------------------------------------------------------
(* Properties of the gradient descent of estimate_emor *)

\* the error differences of the round about to run
RoundDiffs == error_diffs(mappings, est_factors, err)

AllZero(diffs) == \A i \in 1..Len(diffs) : diffs[i] = 0

HasNaN(diffs) == \E i \in 1..Len(diffs) : IsNaN(diffs[i])

RECURSIVE SquareSum(_, _)
SquareSum(diffs, n) ==
    IF n = 0 THEN 0
    ELSE SquareSum(diffs, n - 1) + diff_direction(diffs, n) * diff_direction(diffs, n)

\* the direction of the step has length 1, within 1%
Normalized(diffs) ==
    100 * Abs(SquareSum(diffs, Len(diffs)) - One * One) <= One * One

\* C20: the step size of round k is START_STEP_SIZE at k = 0, falls by the
\* same amount (START_STEP_SIZE - DELTA) / Rounds from each round to the
\* next, and stays at or above the final step size DELTA; a round that steps
\* moves factor i by component i of the normalized gradient times the step
\* size of the round, the same for every factor.
C20_StepSizeDecaysLinearly ==
    /\ []((pcE = "loop" /\ step < Rounds) =>
            /\ step = 0 => step_size(step) = START_STEP_SIZE
            /\ step_size(step) >= DELTA
            /\ step + 1 < Rounds => step_size(step + 1) < step_size(step)
            /\ Abs(Rounds * (START_STEP_SIZE - step_size(step))
                   - step * (START_STEP_SIZE - DELTA)) <= Rounds)
    /\ [][(pcE = "loop" /\ step' = step + 1) =>
            /\ Normalized(RoundDiffs)
            /\ \A i \in 1..FactorCount :
                   est_factors'[i] =
                       est_factors[i] - FMul(diff_direction(RoundDiffs, i), step_size(step))
       ]_vars

\* the last round of the budget is about to run after rounds that moved
\* every factor
C20_Witness ==
    /\ pcE = "loop"
    /\ step = Rounds - 1
    /\ \A i \in 1..FactorCount : est_factors[i] # 0

-----------------------------------------------------------------------------
(* Properties of calc_error *)

MIN_EXTENT == One \div 2

\* |y of the first curve point - y of the last curve point|
Extent(mapping) == Abs(mapping.curve[1][2] - mapping.curve[Len(mapping.curve)][2])

\* the mappings whose extent exceeds MIN_EXTENT, in their order
WideMappings(maps) == SelectSeq(maps, LAMBDA m : Extent(m) > MIN_EXTENT)

\* the error of the factors when only the wide mappings add to the sums,
\* the penalty being the one of the whole mapping set
ErrorOfWide(maps, emor_factors) ==
    The({error_ratio(shortfall, nmw, fit[1], Samples * nmw + fit[2]) :
            shortfall \in {non_mono_sum(emor_factors, Samples)},
            nmw \in {non_mono_weight(Len(maps))},
            fit \in {mappings_error(WideMappings(maps), emor_factors,
                                    Len(WideMappings(maps)))}})

\* C21: the weight of a mapping is
\* (max(0, extent - MIN_EXTENT) / (1 - MIN_EXTENT))^2 * curve.len() / 256; it
\* is never negative, it is 0 for an extent of at most MIN_EXTENT, and such a
\* mapping adds nothing to the numerator and the denominator of the error.
C21_MappingWeight ==
    (pcE \in {"loop", "done"} /\ Len(mappings) > 0) =>
        /\ \A k \in 1..Len(mappings) :
              /\ mapping_weight(mappings[k]) >= 0
              /\ mapping_weight(mappings[k]) =
                     FDiv(Len(mappings[k].curve) * WScale
                          * FMul(FDiv(FMax(Extent(mappings[k]) - MIN_EXTENT, 0) * One,
                                      One - MIN_EXTENT),
                                 FDiv(FMax(Extent(mappings[k]) - MIN_EXTENT, 0) * One,
                                      One - MIN_EXTENT)),
                          SAMPLE_COUNT_DEN * One)
              /\ Extent(mappings[k]) <= MIN_EXTENT => mapping_weight(mappings[k]) = 0
              /\ Extent(mappings[k]) > MIN_EXTENT => mapping_weight(mappings[k]) > 0
        /\ err = ErrorOfWide(mappings, est_factors)

\* the descent has stepped on a set of one mapping of small extent and one
\* of large extent
C21_Witness ==
    /\ pcE = "loop"
    /\ step >= 1
    /\ Len(mappings) = 2
    /\ Extent(mappings[1]) <= MIN_EXTENT
    /\ Extent(mappings[2]) > MIN_EXTENT


\* y[i] of the candidate curve
CurveY(emor_factors, i) == emor_at_index(emor_factors, i)

\* how far the step of the pair (y[i - 1], y[i]) falls short of MIN_DELTA
PairShortfall(emor_factors, i) ==
    FMax(MIN_DELTA - (CurveY(emor_factors, i) - CurveY(emor_factors, i - 1)), 0)

\* the sum of PairShortfall over the pairs 1 .. n
RECURSIVE PairShortfalls(_, _)
PairShortfalls(emor_factors, n) ==
    IF n = 0 THEN 0
    ELSE PairShortfalls(emor_factors, n - 1) + PairShortfall(emor_factors, n)

\* the error when the penalty adds `shortfall` times the weight to the
\* numerator and `count` times the weight to the denominator
ErrorWithPenalty(maps, emor_factors, shortfall, count) ==
    The({error_ratio(shortfall, nmw, fit[1], count * nmw + fit[2]) :
            nmw \in {non_mono_weight(Len(maps))},
            fit \in {mappings_error(maps, emor_factors, Len(maps))}})

\* C22 as stated: the penalty adds, once per pair of consecutive samples,
\* max(0, MIN_DELTA - (y[i] - y[i-1])) * non_mono_weight to the numerator and
\* non_mono_weight to the denominator.
C22_PenaltyPerPair ==
    (pcE \in {"loop", "done"} /\ Len(mappings) > 0) =>
        err = ErrorWithPenalty(mappings, est_factors,
                               PairShortfalls(est_factors, Samples - 1), Samples - 1)

\* C22 amended: the penalty adds once per sample, Samples times in all: the
\* term of sample 0 is max(0, -y[0]) (last_y starts at -MIN_DELTA), the one
\* of sample i > 0 is max(0, MIN_DELTA - (y[i] - y[i-1])), each times
\* non_mono_weight, and non_mono_weight is added to the denominator every
\* time; MIN_DELTA is MIN_SLOPE / Samples; the penalty is zero exactly when
\* y[0] >= 0 and every step is at least MIN_DELTA.
C22_PenaltyPerSample ==
    (pcE \in {"loop", "done"} /\ Len(mappings) > 0) =>
        /\ err = ErrorWithPenalty(mappings, est_factors,
                                  FMax(0 - CurveY(est_factors, 0), 0)
                                  + PairShortfalls(est_factors, Samples - 1),
                                  Samples)
        /\ MIN_DELTA = FDiv(One, MIN_SLOPE_DEN * Samples)
        /\ (non_mono_sum(est_factors, Samples) = 0) <=>
               /\ CurveY(est_factors, 0) >= 0
               /\ \A i \in 1..(Samples - 1) :
                      CurveY(est_factors, i) - CurveY(est_factors, i - 1) >= MIN_DELTA

\* the descent reached factors whose curve falls somewhere, on mappings
\* that carry weight
C22_Witness ==
    /\ pcE = "loop"
    /\ step >= 1
    /\ Len(mappings) > 0
    /\ \E k \in 1..Len(mappings) : mapping_weight(mappings[k]) > 0
    /\ \E i \in 1..(Samples - 1) : CurveY(est_factors, i) < CurveY(est_factors, i - 1)

-----------------------------------------------------------------------------
(* Properties of the pairing of compute_exposure_mappings *)

\* |exposure ratio of histogram j to histogram i - 2.0|
Deviation(i, j) ==
    Abs(FDiv(histograms[j].exposure * One, histograms[i].exposure) - 2 * One)

\* j is accepted for i: no candidate from i + 2 to j deviates more than the
\* candidate before it (the first candidate is always accepted)
Accepted(i, j) ==
    /\ j > i
    /\ j <= Len(histograms)
    /\ \A k \in (i + 2)..j : Deviation(i, k) <= Deviation(i, k - 1)

\* the last accepted candidate of i
Partner(i) == CHOOSE j \in (i + 1)..Len(histograms) :
                  Accepted(i, j) /\ \A k \in (i + 1)..Len(histograms) : Accepted(i, k) => k <= j

\* C23: the iteration of histogram i pushes nothing when i is the last
\* histogram of its channel, and otherwise exactly one mapping, the one of i
\* and of the last candidate j > i accepted before the scan stops at a
\* candidate that deviates strictly more from a ratio of 2.0; a finished job
\* stores one mapping per histogram but the last in every channel.
C23_PairedWithLastAccepted ==
    /\ [][(pcM = "loop" /\ map_k' = map_k + 1) =>
            /\ \A chan \in 1..CHANNELS :
                   chan # loop_chan(map_k + 1) => new_mappings'[chan] = new_mappings[chan]
            /\ loop_i(map_k + 1) = Len(histograms) =>
                   new_mappings' = new_mappings
            /\ loop_i(map_k + 1) < Len(histograms) =>
                   /\ Len(new_mappings'[loop_chan(map_k + 1)])
                          = Len(new_mappings[loop_chan(map_k + 1)]) + 1
                   /\ SubSeq(new_mappings'[loop_chan(map_k + 1)], 1,
                             Len(new_mappings[loop_chan(map_k + 1)]))
                          = new_mappings[loop_chan(map_k + 1)]
                   /\ Last(new_mappings'[loop_chan(map_k + 1)]).exposure_ratio =
                          FDiv(histograms[Partner(loop_i(map_k + 1))].exposure * One,
                               histograms[loop_i(map_k + 1)].exposure)
                   /\ Last(new_mappings'[loop_chan(map_k + 1)]).populations =
                          <<hist_population(histograms[loop_i(map_k + 1)]
                                                .histograms[loop_chan(map_k + 1)]),
                            hist_population(histograms[Partner(loop_i(map_k + 1))]
                                                .histograms[loop_chan(map_k + 1)])>>
       ]_vars
    /\ [](pcM = "done" =>
            \A chan \in 1..CHANNELS :
                Len(exposure_mappings[chan]) =
                    IF Len(histograms) = 0 THEN 0 ELSE Len(histograms) - 1)

\* a finished job on three images whose first one was paired with the
\* third: the second candidate deviated less than the first
C23_Witness ==
    /\ pcM = "done"
    /\ Len(histograms) = 3
    /\ Partner(1) = 3
    /\ exposure_mappings[1][1].exposure_ratio =
           FDiv(histograms[3].exposure * One, histograms[1].exposure)


\* err_weight_sum of calc_error: the weights the penalty and the mappings add
Denominator(maps, emor_factors) ==
    Samples * non_mono_weight(Len(maps))
    + mappings_error(maps, emor_factors, Len(maps))[2]

\* C24: on a non-empty mapping set the total weight the error is divided by
\* is strictly positive, also when every mapping has weight 0, and the
\* reported error is a number that is not negative.
C24_DenominatorPositive ==
    (pcE \in {"loop", "done"} /\ Len(mappings) > 0) =>
        /\ Denominator(mappings, est_factors) > 0
        /\ ~IsNaN(err)
        /\ err >= 0

\* the error was computed after a step on mappings that all have weight 0
C24_Witness ==
    /\ pcE = "done"
    /\ Len(mappings) > 0
    /\ \A k \in 1..Len(mappings) : mapping_weight(mappings[k]) = 0
    /\ mappings_error(mappings, est_factors, Len(mappings))[2] = 0
    /\ ~IsNaN(err)


-----------------------------------------------------------------------------
(* Properties of the image lists and of the selection *)

BracketImageExists ==
    \E s \in 1..Len(bracket_image_sets) : Len(bracket_image_sets[s]) > 0

BracketSelectionValid ==
    /\ selected_bracket_image_index[1] < Len(bracket_image_sets)
    /\ selected_bracket_image_index[2] <
           Len(bracket_image_sets[selected_bracket_image_index[1] + 1])

LensCapSelectionValid ==
    selected_lens_cap_image_index < Len(lens_cap_images)

\* C25: once the add, remove-image and remove-set operations have run (no
\* job is running), the selection indices are valid: when a bracket image
\* exists, selected_bracket_image_index designates an existing set and an
\* existing image of it, and when a lens cap image exists,
\* selected_lens_cap_image_index is below the number of lens cap images.
C25_SelectionValid ==
    pcA = "idle" =>
        /\ BracketImageExists => BracketSelectionValid
        /\ Len(lens_cap_images) > 0 => LensCapSelectionValid


\* the positions of the "Add Image(s)" jobs between the update of one list
\* and the update of the other
BetweenListUpdates == pcA \in {"new_thumbnail_set", "push_image", "lens_push_image"}

ListsAligned ==
    /\ Len(bracket_image_sets) = Len(bracket_thumbnail_sets)
    /\ \A s \in 1..Len(bracket_image_sets) :
          s <= Len(bracket_thumbnail_sets)
              => Len(bracket_image_sets[s]) = Len(bracket_thumbnail_sets[s])
    /\ Len(lens_cap_images) = Len(lens_cap_thumbnails)

\* C26: whenever no add-image job is between its two list updates,
\* bracket_image_sets and bracket_thumbnail_sets hold the same number of sets
\* and the same number of images in every set, and lens_cap_images and
\* lens_cap_thumbnails have the same length; adds that fail, skip an image or
\* are cancelled, and the removals, keep it so.
C26_ListsAligned == ~BetweenListUpdates => ListsAligned

C26_Witness ==
    /\ pcA = "idle"
    /\ add_log = {"no_access", "different_resolution"}
    /\ BracketImageExists
    /\ Len(bracket_image_sets) = 2
    /\ Len(lens_cap_images) = 1
    /\ job_queue = <<MappingsJob>>


-----------------------------------------------------------------------------
(* Properties of the sensor estimation jobs *)

\* the job at the head of the queue iterates the histogram sets
IteratesHistogramSets ==
    /\ pcA = "idle"
    /\ job_queue # <<>>
    /\ \/ Head(job_queue).kind = "ceiling"
       \/ Head(job_queue).kind = "floor" /\ lens_cap_images = <<>>

\* C27: the sensor floor and sensor ceiling jobs never read histograms[i][0]
\* in an empty list: every bracket image set they iterate has an image with
\* exposure data, and no job panics.
C27_HistogramListsNonEmpty ==
    /\ pcA # "panicked"
    /\ IteratesHistogramSets =>
          \A s \in 1..Len(bracket_image_sets) :
             \E i \in 1..Len(bracket_image_sets[s]) :
                bracket_image_sets[s][i].exposure # None


-----------------------------------------------------------------------------
(* Properties of the estimation job's result *)

\* C28: an estimation job that was never cancelled, has at least one mapping
\* and a round budget of at least 1 has run at least one optimization round
\* and has stored transfer_function_tables and transfer_function_preview when
\* it completes, whatever the round budget and the number of mappings.
C28_CompletedJobPublished ==
    (pc = "done" /\ ~canceled /\ nMappings >= 1 /\ total_rounds >= 1)
        => (est_rounds >= 1 /\ tables # None /\ preview # None)


-----------------------------------------------------------------------------
(* Properties of the export *)

\* C29: whenever a "Save LUT" job runs with transfer_function_type ==
\* Estimated, transfer_function_tables is Some, so the unwrap of the job
\* never fails, in every interleaving of the export, selection and estimate
\* actions with the queued jobs that job_count == 0 permits.
C29_SaveLutFindsTables ==
    /\ pcS # "panicked"
    /\ pcA # "panicked"
    /\ (pcA = "save" /\ transfer_function_type = "Estimated") => tables # None

\* a "Save LUT" job computes the LUT of an estimate, after an estimation job
\* that was started with the type at Linear
C29_Witness ==
    /\ pcA = "save"
    /\ pcS = "write"
    /\ transfer_function_type = "Estimated"
    /\ tables # None
    /\ lut # None
    /\ lut[1].function = "Estimated"


-----------------------------------------------------------------------------
(* Properties of the renormalization of save_lut *)

\* C30: when save_lut renormalizes a table made by emor_factors_to_curve
\* for a channel whose sensor floor is below its sensor ceiling, the table
\* sampled at the ceiling is strictly greater than the table sampled at the
\* floor, so the divisor of 1 / (ceil - floor) is never zero.
C30_DivisorNeverZero ==
    (phase = "ret" /\ call.fn = "save_lut" /\ call.floor < call.ceiling)
        => /\ ~ret.divz
           /\ lerp_slice(emor_factors_to_curve(call.factors), call.ceiling)
                  > lerp_slice(emor_factors_to_curve(call.factors), call.floor)

====
